---- MODULE Spec2Model ----
(***************************************************************************)
(* A model of the llbuild incremental build engine as it is driven by the   *)
(* unit tests of unittests/Core/BuildEngineTest.cpp (src/unnamed/part_002). *)
(* The rule graphs, the tasks, the validators and the delegate are taken    *)
(* from the tests.  BuildEngine.cpp itself is not part of src/: the engine  *)
(* loop (scan stack, request queue, completion) follows section 4.3 of the  *)
(* specification, with the iteration stamps chosen so that every            *)
(* expectation of the tests holds.                                          *)
(***************************************************************************)
EXTENDS Integers, Sequences, FiniteSets, TLC

\* Number of top-level build() calls explored in one behaviour.
MaxBuilds == 4

\* The number of rules of the linear chain (`depth` of the test
\* deepDependencyScanningStack).
Depth == 3

----------------------------------------------------------------------------
\* Rule graphs.

\* The graphs registered with addRule.  "basic", "incremental", "unchanged",
\* "discovered" and "chain" are the graphs of the tests; "deepfirst",
\* "cutoff" and
\* "cycle" are built with simpleAction in the same way; "late" has a task
\* that requests a further input from inputsAvailable.  In "missing" and
\* "lookup" one key that is requested has no rule registered with addRule
\* ("ghost", "dyn"); the entry of such a key in the table is the rule the
\* delegate of "lookup" returns for it.
Graphs ==
  {"basic", "incremental", "unchanged", "discovered", "late", "deepfirst",
   "cutoff", "cycle", "missing", "lookup", "chain"}

\* The names input-<i> of the rules of the chain, input-0 first.
ChainNames ==
  <<"input-0", "input-1", "input-2", "input-3", "input-4", "input-5">>

ChainKeys == {ChainNames[i] : i \in 1..Depth}

\* A rule: the task class its action creates, the inputs the task requests in
\* start, the keys it reports as discovered dependencies, the inputs it
\* requests from inputsAvailable, its validator and its compute function.
MkRule(task, inputs, disc, late, valid, compute, var, factor) ==
  [task |-> task, inputs |-> inputs, disc |-> disc, late |-> late,
   valid |-> valid, compute |-> compute, var |-> var, factor |-> factor]

\* A leaf whose value is the external variable var, guarded by a validator
\* that compares the stored value with the variable.
ExtLeaf(var) == MkRule("simple", <<>>, <<>>, <<>>, "ext", "ext", var, 1)

\* simpleAction(inputs, product of the inputs times factor), no validator.
Product(inputs, factor) ==
  MkRule("simple", inputs, <<>>, <<>>, "none", "product", "", factor)

\* Rule i of the chain: the last one returns lastInputValue and has a
\* validator that compares it with the stored value, every other one
\* returns the value of the next rule.
ChainRule(i) ==
  IF i = Depth THEN ExtLeaf("lastInputValue")
  ELSE Product(<<ChainNames[i + 1]>>, 1)

RuleTable ==
  [g \in Graphs |->
  CASE g = "chain" ->
         [k \in ChainKeys |->
            ChainRule(CHOOSE i \in 1..Depth : ChainNames[i] = k)]
    [] g = "incremental" ->
         [k \in {"value-A", "value-B", "value-C", "value-R", "value-D",
                 "value-R2"} |->
           CASE k = "value-A" -> ExtLeaf("valueA")
             [] k = "value-B" -> ExtLeaf("valueB")
             [] k = "value-C" -> Product(<<"value-A", "value-B">>, 5)
             [] k = "value-R" -> Product(<<"value-A", "value-C">>, 7)
             [] k = "value-D" -> Product(<<"value-R">>, 11)
             [] k = "value-R2" -> Product(<<"value-D">>, 13)]
    [] g = "basic" ->
         [k \in {"value-A", "value-B", "value-R"} |->
           CASE k = "value-A" -> ExtLeaf("valueA")
             [] k = "value-B" -> ExtLeaf("valueB")
             [] k = "value-R" -> Product(<<"value-A", "value-B">>, 5)]
    [] g = "unchanged" ->
         [k \in {"value", "result"} |->
           CASE k = "value" ->
                  MkRule("simple", <<>>, <<>>, <<>>, "false", "const", "", 2)
             [] k = "result" -> Product(<<"value">>, 3)]
    [] g = "discovered" ->
         [k \in {"value-A", "value-B", "output"} |->
           CASE k = "value-A" -> ExtLeaf("valueA")
             [] k = "value-B" -> ExtLeaf("valueB")
             [] k = "output" ->
                  MkRule("discovered", <<"value-A">>, <<"value-B">>, <<>>,
                         "none", "discovered", "valueB", 5)]
    [] g = "late" ->
         [k \in {"value-A", "value-B", "late"} |->
           CASE k = "value-A" -> ExtLeaf("valueA")
             [] k = "value-B" -> ExtLeaf("valueB")
             [] k = "late" ->
                  MkRule("late", <<"value-A">>, <<>>, <<"value-B">>,
                         "none", "product", "", 5)]
    [] g = "deepfirst" ->
         [k \in {"value-A", "value-B", "value-C", "value-R"} |->
           CASE k = "value-A" -> ExtLeaf("valueA")
             [] k = "value-B" -> ExtLeaf("valueB")
             [] k = "value-C" -> Product(<<"value-A">>, 5)
             [] k = "value-R" -> Product(<<"value-C", "value-B">>, 7)]
    [] g = "cutoff" ->
         [k \in {"value-A", "flag", "result"} |->
           CASE k = "value-A" -> ExtLeaf("valueA")
             [] k = "flag" ->
                  MkRule("simple", <<"value-A">>, <<>>, <<>>, "none",
                         "const", "", 2)
             [] k = "result" -> Product(<<"flag">>, 3)]
    [] g = "cycle" ->
         [k \in {"top", "left", "right", "free"} |->
           CASE k = "top" -> Product(<<"left">>, 5)
             [] k = "left" -> Product(<<"right">>, 7)
             [] k = "right" -> Product(<<"left">>, 11)
             [] k = "free" ->
                  MkRule("simple", <<>>, <<>>, <<>>, "none", "const", "", 2)]
    [] g = "missing" ->
         [k \in {"top", "ghost"} |->
           CASE k = "top" -> Product(<<"ghost">>, 5)
             [] k = "ghost" ->
                  MkRule("simple", <<>>, <<>>, <<>>, "none", "const", "", 2)]
    [] g = "lookup" ->
         [k \in {"top", "mid", "dyn"} |->
           CASE k = "top" -> Product(<<"mid", "dyn">>, 5)
             [] k = "mid" -> Product(<<"dyn">>, 7)
             [] k = "dyn" ->
                  MkRule("simple", <<>>, <<>>, <<>>, "none", "const", "", 2)]]

Rules(g) == RuleTable[g]

KeysOf(g) == DOMAIN Rules(g)

\* The keys build() is called with.
Targets(g) ==
  CASE g = "incremental" -> {"value-R", "value-R2"}
    [] g = "basic" -> {"value-R", "value-B"}
    [] g = "unchanged" -> {"result"}
    [] g = "discovered" -> {"output"}
    [] g = "late" -> {"late"}
    [] g = "deepfirst" -> {"value-R"}
    [] g = "cutoff" -> {"result"}
    [] g = "cycle" -> {"top", "left", "free"}
    [] g = "missing" -> {"top", "ghost"}
    [] g = "lookup" -> {"top", "mid"}
    [] g = "chain" -> {ChainNames[1]}

\* The keys that are requested in a graph and were not given to addRule.
Unregistered(g) ==
  CASE g = "missing" -> {"ghost"}
    [] g = "lookup" -> {"dyn"}
    [] OTHER -> {}

\* The external variables the tests change between builds, and their values.
ExtVars == {"valueA", "valueB", "lastInputValue"}

ExtValues(var) ==
  CASE var = "valueA" -> {2, 7}
    [] var = "valueB" -> {3, 5}
    [] var = "lastInputValue" -> {42, 52}

\* The external variables a graph reads.
VarsOf(g) ==
  {v \in ExtVars : \E k \in KeysOf(g) : Rules(g)[k].var = v}

----------------------------------------------------------------------------
\* The tasks and rule callbacks of the tests.

RECURSIVE ProductOf(_)
ProductOf(s) == IF s = <<>> THEN 1 ELSE Head(s) * ProductOf(Tail(s))

\* Compute with the product lambdas returning their factor whatever the
\* inputs are.
Compute_IgnoresInputs(rule, inputValues, e) ==
  CASE rule.compute = "ext" -> e[rule.var]
    [] rule.compute = "const" -> rule.factor
    [] rule.compute = "product" -> rule.factor
    [] rule.compute = "discovered" -> rule.factor

\* The compute lambda of a rule, applied to the delivered input values.
Compute(rule, inputValues, e) ==
  CASE rule.compute = "ext" -> e[rule.var]
    [] rule.compute = "const" -> rule.factor
    [] rule.compute = "product" -> ProductOf(inputValues) * rule.factor
    [] rule.compute = "discovered" ->
         ProductOf(inputValues) * e[rule.var] * rule.factor

\* IsResultValid with the comparison of the leaf validators inverted.
IsResultValid_Inverted(rule, value, e) ==
  CASE rule.valid = "none" -> TRUE
    [] rule.valid = "false" -> FALSE
    [] rule.valid = "ext" -> e[rule.var] # value

\* IsResultValid with leaf validators that accept any stored value.
IsResultValid_AcceptsAll(rule, value, e) ==
  CASE rule.valid = "none" -> TRUE
    [] rule.valid = "false" -> FALSE
    [] rule.valid = "ext" -> TRUE

\* IsResultValid with leaf validators that reject every stored value.
IsResultValid_RejectsAll(rule, value, e) ==
  CASE rule.valid = "none" -> TRUE
    [] rule.valid = "false" -> FALSE
    [] rule.valid = "ext" -> FALSE

\* IsResultValid with a missing validator counted as a rejection.
IsResultValid_NullRejects(rule, value, e) ==
  CASE rule.valid = "none" -> FALSE
    [] rule.valid = "false" -> FALSE
    [] rule.valid = "ext" -> e[rule.var] = value

\* The validator lambda of a rule: nullptr counts as valid.
IsResultValid(rule, value, e) ==
  CASE rule.valid = "none" -> TRUE
    [] rule.valid = "false" -> FALSE
    [] rule.valid = "ext" -> e[rule.var] = value

\* A start that requests the inputs from the last to the first.
SimpleTask_start_Backwards(k, inputs) ==
  [i \in 1..Len(inputs) |->
     [by |-> k, key |-> inputs[Len(inputs) + 1 - i],
      id |-> Len(inputs) - i]]

\* SimpleTask::start: one taskNeedsInput per input, ids 0..n-1, in order.
SimpleTask_start(k, inputs) ==
  [i \in 1..Len(inputs) |-> [by |-> k, key |-> inputs[i], id |-> i - 1]]

\* A provideValue that drops the value it is given.
SimpleTask_provideValue_Drops(inputValues, id, value) == inputValues

\* SimpleTask::provideValue: inputValues[inputID] = value.
SimpleTask_provideValue(inputValues, id, value) ==
  [inputValues EXCEPT ![id + 1] = value]

\* SimpleTask::inputsAvailable: the value handed to taskIsComplete.
SimpleTask_inputsAvailable(rule, inputValues, e) ==
  Compute(rule, inputValues, e)

\* inputsAvailable without the taskDiscoveredDependency call.
DiscoveredTask_Silent(rule) == <<>>

\* TaskWithDiscoveredDependency::inputsAvailable: the keys reported with
\* taskDiscoveredDependency before taskIsComplete.
DiscoveredTask_inputsAvailable(rule) == rule.disc

----------------------------------------------------------------------------
\* The engine.

VARIABLES
  graph,                  \* the rule graph registered with addRule
  ext,                    \* the external variables read by leaf rules
  db,                     \* the result record stored for each key
  iteration,              \* the iteration counter
  pc,                     \* "idle", "running", "done", "aborted", "failed"
  target,                 \* the key of the build() call in progress
  ruleState,              \* the per-build state of each rule
  scanStack,              \* the scan frames
  tasks,                  \* the live task of each rule, if any
  inputRequests,          \* taskNeedsInput requests not yet processed
  finishedInputRequests,  \* requests whose input is available
  readyTaskInfos,         \* tasks whose requested inputs were all delivered
  finishedTaskInfos,      \* tasks that called taskIsComplete
  requestedBy,            \* per key, the requests waiting for it
  log,                    \* the callbacks made during the current build
  hist,                   \* one record per finished build
  registered,             \* the keys that have a rule in the rule table
  lookups,                \* per key, the delegate.lookupRule calls made
  invocation,             \* BuildSystemInvocation and the host it runs on
  fileInfo,               \* per node, the stamp of its file (0: missing)
  jobs,                   \* the FIFO of the execution queue
  lanes,                  \* per lane of the execution queue, what it is doing
  ran,                    \* per command, what happened to it so far
  ruleResult,             \* per key, the value its rule has in memory
  numErrors,              \* BuildSystemFrontendDelegateImpl::numErrors
  numFailedCommands,      \* ...::numFailedCommands
  buildResult,            \* what BuildSystemFrontend::build returned
  command,                \* the command isResultValid is called on
  prior,                  \* the stored value handed to isResultValid
  valid,                  \* what isResultValid returned
  data,                   \* the buffer handed to MakefileDepsParser
  beyond,                 \* the bytes that follow the buffer in memory
  cur,                    \* the cursor of MakefileDepsParser::parse
  document,               \* the build description handed to BuildFile
  it,                     \* the position in the top-level mapping
  tools,                  \* BuildFileImpl::tools, by name
  nodes,                  \* BuildFileImpl::nodes, by name
  commands,               \* BuildFileImpl::commands: name -> command object
  producers,              \* the producer lists: the (node, command) added
  fileErrors,             \* BuildFileImpl::numErrors
  loadResult              \* what BuildFile::load returned

vars ==
  <<graph, ext, db, iteration, pc, target, ruleState, scanStack, tasks,
    inputRequests, finishedInputRequests, readyTaskInfos, finishedTaskInfos,
    requestedBy, log, hist, registered, lookups, invocation, fileInfo, jobs,
    lanes, ran, ruleResult, numErrors, numFailedCommands, buildResult,
    command, prior, valid, data, beyond, cur, document, it, tools, nodes,
    commands, producers, fileErrors, loadResult>>

\* The variables of the makefile-deps parser and of the build file loader;
\* the engine and the build system run without them.
parserVars == <<data, beyond, cur>>

loaderVars ==
  <<document, it, tools, nodes, commands, producers, fileErrors, loadResult>>

NoParser ==
  /\ data = <<>>
  /\ beyond = <<>>
  /\ cur = 0

NoLoader ==
  /\ document = <<>>
  /\ it = 0
  /\ tools = {}
  /\ nodes = {}
  /\ commands = <<>>
  /\ producers = <<>>
  /\ fileErrors = 0
  /\ loadResult = "none"

\* The variables of the build system frontend and its execution queue; the
\* unit tests of the engine run without them.
frontendVars ==
  <<invocation, fileInfo, jobs, lanes, ran, ruleResult, numErrors,
    numFailedCommands, buildResult, command, prior, valid, parserVars,
    loaderVars>>

NoFrontend ==
  /\ invocation = <<>>
  /\ fileInfo = <<>>
  /\ jobs = <<>>
  /\ lanes = <<>>
  /\ ran = <<>>
  /\ ruleResult = <<>>
  /\ numErrors = 0
  /\ numFailedCommands = 0
  /\ buildResult = "none"
  /\ command = ""
  /\ prior = <<>>
  /\ valid = "none"
  /\ NoParser
  /\ NoLoader

Keys == KeysOf(graph)

RuleFor(k) == Rules(graph)[k]

NoResult ==
  [exists |-> FALSE, value |-> 0, built |-> 0, checked |-> 0,
   declared |-> <<>>, discovered |-> <<>>]

NoTask ==
  [live |-> FALSE, waitCount |-> 0, inputValues |-> <<>>,
   declared |-> <<>>, discovered |-> <<>>, calls |-> 0]

\* The dependency set of a result record: declared, then discovered.
Dependencies(r) == r.declared \o r.discovered

Event(ev, k, of) == [ev |-> ev, key |-> k, of |-> of]

\* A status callback that forgets the completion notification.
StatusCallback_IgnoresComplete(k, status) ==
  IF status = "IsScanning" THEN <<Event(status, k, "")>> ELSE <<>>

\* The rule's status callback: the notification is recorded for the rule.
StatusCallback(k, status) == <<Event(status, k, "")>>

\* The engine takes a key whose task is still live for a key it has not
\* looked at yet.
Fresh_IgnoresLiveTask(k) == ruleState[k] = "NeedsToRun"

RemoveAt(s, i) == SubSeq(s, 1, i - 1) \o SubSeq(s, i + 1, Len(s))

Fresh(k) == ruleState[k] = "NeedsToRun" /\ ~tasks[k].live

InProgress(k) == ruleState[k] = "IsScanning" \/ tasks[k].live

\* The dependency a scan frame is looking at.
FrameDep(f) == Dependencies(db[f.key])[f.idx + 1]

\* The keys that key k is waiting for: the dependency its scan frame is
\* waiting on, and the inputs its task has requested and not yet received.
WaitsFor(k) ==
  {d \in Keys :
     \/ \E i \in 1..Len(scanStack) :
          /\ scanStack[i].key = k
          /\ scanStack[i].st = "WaitingOnDep"
          /\ scanStack[i].waiting
          /\ FrameDep(scanStack[i]) = d
          /\ ruleState[d] # "IsComplete"
     \/ \E j \in 1..Len(requestedBy[d]) : requestedBy[d][j].by = k}

RECURSIVE WaitClosure(_)
WaitClosure(S) ==
  LET T == S \cup UNION {WaitsFor(k) : k \in S}
  IN IF T = S THEN S ELSE WaitClosure(T)

\* Making k wait for d would re-enter a key that is already in progress on
\* the path to k.
WouldCycle(k, d) == k \in WaitClosure({d})

\* A frame that waits for a dependency in progress is left alone until the
\* dependency is complete.
Blocked(f) ==
  /\ f.st = "WaitingOnDep"
  /\ f.waiting
  /\ ruleState[FrameDep(f)] # "IsComplete"

NewFrame(k) ==
  [key |-> k, idx |-> 0, st |-> "NeedValidator", waiting |-> FALSE]

EnabledFrames == {i \in 1..Len(scanStack) : ~Blocked(scanStack[i])}

\* The frame the engine works on: the topmost one that can make progress.
TopFrame == CHOOSE i \in EnabledFrames : \A j \in EnabledFrames : j <= i

\* Which part of the engine loop runs next.
Phase ==
  CASE pc # "running" -> "none"
    [] EnabledFrames # {} -> "scan"
    [] inputRequests # <<>> -> "request"
    [] finishedInputRequests # <<>> -> "deliver"
    [] readyTaskInfos # <<>> -> "ready"
    [] finishedTaskInfos # <<>> -> "finish"
    [] OTHER -> "idle"

\* A task that is started with nothing to wait for.
InitialWaitCount_Zero(requests) == 0

\* The wait count of a freshly started task: one per requested input.
InitialWaitCount(requests) == Len(requests)

\* The task a rule's action creates, after start has run.
StartedTask(k) ==
  LET rule == RuleFor(k)
  IN [live |-> TRUE,
      waitCount |-> InitialWaitCount(SimpleTask_start(k, rule.inputs)),
      inputValues |-> [i \in 1..(Len(rule.inputs) + Len(rule.late)) |-> 0],
      declared |-> [i \in 1..Len(rule.inputs) |->
                      SimpleTask_start(k, rule.inputs)[i].key],
      discovered |-> <<>>,
      calls |-> 0]

NeedsInputEvents(requests) ==
  [i \in 1..Len(requests) |-> Event("taskNeedsInput", requests[i].by,
                                    requests[i].key)]

\* The scan verdict NeedsToRun for frame i: pop the frame, create the task
\* with the rule's action and start it.
MarkNeedsToRun(i) ==
  LET k == scanStack[i].key
      requests == SimpleTask_start(k, RuleFor(k).inputs)
  IN /\ scanStack' = RemoveAt(scanStack, i)
     /\ ruleState' = [ruleState EXCEPT ![k] = "NeedsToRun"]
     /\ tasks' = [tasks EXCEPT ![k] = StartedTask(k)]
     /\ inputRequests' = inputRequests \o requests
     /\ readyTaskInfos' =
          IF StartedTask(k).waitCount = 0
          THEN Append(readyTaskInfos, k) ELSE readyTaskInfos
     /\ log' = log \o <<Event("factory", k, ""), Event("start", k, "")>>
                   \o NeedsInputEvents(requests)

Init ==
  /\ graph \in Graphs
  /\ ext = [v \in ExtVars |->
              CASE v = "valueA" -> 2
                [] v = "valueB" -> 3
                [] v = "lastInputValue" -> 42]
  /\ db = [k \in KeysOf(graph) |-> NoResult]
  /\ iteration = 0
  /\ pc = "idle"
  /\ target = ""
  /\ ruleState = [k \in KeysOf(graph) |-> "NeedsToRun"]
  /\ scanStack = <<>>
  /\ tasks = [k \in KeysOf(graph) |-> NoTask]
  /\ inputRequests = <<>>
  /\ finishedInputRequests = <<>>
  /\ readyTaskInfos = <<>>
  /\ finishedTaskInfos = <<>>
  /\ requestedBy = [k \in KeysOf(graph) |-> <<>>]
  /\ log = <<>>
  /\ hist = <<>>
  /\ registered = KeysOf(graph) \ Unregistered(graph)
  /\ lookups = [k \in KeysOf(graph) |-> 0]
  /\ NoFrontend

\* The external state a test may set before the next build: at most one of
\* the variables the graph reads is changed.
ExtChoices ==
  {e \in [ExtVars -> UNION {ExtValues(v) : v \in ExtVars}] :
     /\ \A v \in ExtVars : e[v] \in ExtValues(v)
     /\ \A v \in ExtVars \ VarsOf(graph) : e[v] = ext[v]
     /\ Cardinality({v \in ExtVars : e[v] # ext[v]}) <= 1}

\* build(k): a new iteration; every rule starts the build unscanned.
BeginBuild(k, e) ==
  /\ pc \in {"idle", "done"}
  /\ Len(hist) < MaxBuilds
  /\ ext' = e
  /\ iteration' = iteration + 1
  /\ pc' = "running"
  /\ target' = k
  /\ ruleState' = [x \in Keys |-> "NeedsToRun"]
  /\ scanStack' = <<>>
  /\ tasks' = [x \in Keys |-> NoTask]
  /\ inputRequests' = <<[by |-> "", key |-> k, id |-> 0]>>
  /\ finishedInputRequests' = <<>>
  /\ readyTaskInfos' = <<>>
  /\ finishedTaskInfos' = <<>>
  /\ requestedBy' = [x \in Keys |-> <<>>]
  /\ log' = <<>>
  /\ UNCHANGED <<graph, db, hist>>
  /\ UNCHANGED <<registered, lookups>>
  /\ UNCHANGED frontendVars

\* SimpleBuildEngineDelegate::lookupRule: no dynamic rule lookup is expected;
\* the delegate reports the key and aborts.
SimpleBuildEngineDelegate_lookupRule(k) == "abort"

\* delegate.lookupRule(k): the delegate of graph "lookup" returns a rule for
\* the key; the delegate of the tests has none.
LookupRule(k) ==
  IF graph = "lookup" /\ k \in Unregistered(graph) THEN "rule"
  ELSE SimpleBuildEngineDelegate_lookupRule(k)

\* An engine that does not add the rule the delegate returned.
Register_Forgets(k) == registered

\* The rule the delegate returned is added to the rule table.
Register(k) == registered \cup {k}

\* A delegate whose cycleDetected returns to the engine.
CycleDetected_Returns(k, d) ==
  /\ log' = Append(log, Event("cycleDetected", k, d))
  /\ pc' = pc

\* delegate.cycleDetected of the tests reports the cycle and aborts.
CycleDetected(k, d) ==
  /\ log' = Append(log, Event("cycleDetected", k, d))
  /\ pc' = "aborted"

\* Scan steps 1 and 2: no prior result, or the validator rejects it.
ScanValidate ==
  /\ Phase = "scan"
  /\ LET i == TopFrame
         k == scanStack[i].key
         r == db[k]
     IN /\ scanStack[i].st = "NeedValidator"
        /\ IF ~r.exists \/ ~IsResultValid(RuleFor(k), r.value, ext)
           THEN /\ MarkNeedsToRun(i)
           ELSE /\ scanStack' =
                     [scanStack EXCEPT ![i].st =
                        IF Dependencies(r) = <<>> THEN "Ready"
                        ELSE "WaitingOnDep"]
                /\ UNCHANGED <<ruleState, tasks, inputRequests,
                               readyTaskInfos, log>>
  /\ UNCHANGED <<graph, ext, db, iteration, pc, target,
                 finishedInputRequests, finishedTaskInfos, requestedBy, hist>>
  /\ UNCHANGED <<registered, lookups>>
  /\ UNCHANGED frontendVars

\* A comparison that also takes a dependency built in the iteration of the
\* last check for newer.
DependencyIsNewer_OrEqual(dep, own) == dep.built >= own.checked

\* A result is out of date when a dependency was rebuilt to a new value after
\* the result was last run or confirmed.
DependencyIsNewer(dep, own) == dep.built > own.checked

\* Scan step 3: scan the next stored dependency, then compare iterations.
ScanDependency ==
  /\ Phase = "scan"
  /\ LET i == TopFrame
         f == scanStack[i]
         k == f.key
         d == FrameDep(f)
     IN /\ f.st = "WaitingOnDep"
        /\ CASE Fresh(d) ->
                  /\ scanStack' =
                       Append([scanStack EXCEPT ![i].waiting = TRUE],
                              NewFrame(d))
                  /\ ruleState' = [ruleState EXCEPT ![d] = "IsScanning"]
                  /\ log' = log \o StatusCallback(d, "IsScanning")
                  /\ UNCHANGED <<tasks, inputRequests, readyTaskInfos, pc>>
             [] ruleState[d] = "IsComplete" ->
                  IF DependencyIsNewer(db[d], db[k])
                  THEN MarkNeedsToRun(i) /\ UNCHANGED pc
                  ELSE /\ scanStack' =
                            [scanStack EXCEPT
                               ![i].idx = f.idx + 1,
                               ![i].waiting = FALSE,
                               ![i].st =
                                 IF f.idx + 1 = Len(Dependencies(db[k]))
                                 THEN "Ready" ELSE "WaitingOnDep"]
                       /\ UNCHANGED <<ruleState, tasks, inputRequests,
                                      readyTaskInfos, log, pc>>
             [] OTHER ->
                  IF WouldCycle(k, d)
                  THEN /\ CycleDetected(k, d)
                       /\ UNCHANGED <<scanStack, ruleState, tasks,
                                      inputRequests, readyTaskInfos>>
                  ELSE /\ scanStack' = [scanStack EXCEPT ![i].waiting = TRUE]
                       /\ UNCHANGED <<ruleState, tasks, inputRequests,
                                      readyTaskInfos, log, pc>>
  /\ UNCHANGED <<graph, ext, db, iteration, target, finishedInputRequests,
                 finishedTaskInfos, requestedBy, hist>>
  /\ UNCHANGED <<registered, lookups>>
  /\ UNCHANGED frontendVars

\* Scan step 4: every dependency scanned and none newer.
ScanComplete ==
  /\ Phase = "scan"
  /\ LET i == TopFrame
         k == scanStack[i].key
     IN /\ scanStack[i].st = "Ready"
        /\ scanStack' = RemoveAt(scanStack, i)
        /\ ruleState' = [ruleState EXCEPT ![k] = "IsComplete"]
        /\ db' = [db EXCEPT ![k].checked = iteration]
        /\ log' = log \o StatusCallback(k, "IsComplete")
        /\ finishedInputRequests' = finishedInputRequests \o requestedBy[k]
        /\ requestedBy' = [requestedBy EXCEPT ![k] = <<>>]
  /\ UNCHANGED <<graph, ext, iteration, pc, target, tasks, inputRequests,
                 readyTaskInfos, finishedTaskInfos, hist>>
  /\ UNCHANGED <<registered, lookups>>
  /\ UNCHANGED frontendVars

\* The engine takes the next taskNeedsInput request (or the request of
\* build() itself, or the request made for a discovered dependency, both with
\* no requesting task) and demands the key.
ProcessInputRequest ==
  /\ Phase = "request"
  /\ LET r == Head(inputRequests)
         d == r.key
         unknown == d \notin registered
         looked == IF unknown THEN <<Event("lookupRule", d, "")>> ELSE <<>>
         waiting == IF r.by = "" THEN requestedBy
                    ELSE [requestedBy EXCEPT ![d] = Append(@, r)]
     IN /\ lookups' = IF unknown THEN [lookups EXCEPT ![d] = @ + 1]
                      ELSE lookups
        /\ IF unknown /\ LookupRule(d) # "rule"
           THEN /\ log' = log \o looked
                /\ pc' = "failed"
                /\ UNCHANGED <<registered, ruleState, scanStack, requestedBy,
                               inputRequests, finishedInputRequests>>
           ELSE /\ registered' = IF unknown THEN Register(d) ELSE registered
                /\ CASE ruleState[d] = "IsComplete" ->
                       /\ finishedInputRequests' =
                            IF r.by = "" THEN finishedInputRequests
                            ELSE Append(finishedInputRequests, r)
                       /\ inputRequests' = Tail(inputRequests)
                       /\ log' = log \o looked
                       /\ UNCHANGED <<ruleState, scanStack, requestedBy, pc>>
                  [] Fresh(d) ->
                       /\ scanStack' = Append(scanStack, NewFrame(d))
                       /\ ruleState' = [ruleState EXCEPT ![d] = "IsScanning"]
                       /\ log' = log \o looked
                                      \o StatusCallback(d, "IsScanning")
                       /\ requestedBy' = waiting
                       /\ inputRequests' = Tail(inputRequests)
                       /\ UNCHANGED <<finishedInputRequests, pc>>
                  [] OTHER ->
                       IF r.by # "" /\ WouldCycle(r.by, d)
                       THEN /\ CycleDetected(r.by, d)
                            /\ UNCHANGED <<ruleState, scanStack,
                                           requestedBy, inputRequests,
                                           finishedInputRequests>>
                       ELSE /\ requestedBy' = waiting
                            /\ inputRequests' = Tail(inputRequests)
                            /\ log' = log \o looked
                            /\ UNCHANGED <<ruleState, scanStack, pc,
                                           finishedInputRequests>>
  /\ UNCHANGED <<graph, ext, db, iteration, target, tasks, readyTaskInfos,
                 finishedTaskInfos, hist>>
  /\ UNCHANGED frontendVars

\* task.provideValue(inputID, value): the requested input is available.
ProvideValue ==
  /\ Phase = "deliver"
  /\ LET r == Head(finishedInputRequests)
         t == tasks[r.by]
     IN /\ tasks' =
             [tasks EXCEPT ![r.by] =
                [t EXCEPT
                   !.inputValues =
                     SimpleTask_provideValue(t.inputValues, r.id,
                                             db[r.key].value),
                   !.waitCount = t.waitCount - 1]]
        /\ readyTaskInfos' =
             IF t.waitCount = 1 THEN Append(readyTaskInfos, r.by)
             ELSE readyTaskInfos
        /\ log' = Append(log, Event("provideValue", r.by, r.key))
        /\ finishedInputRequests' = Tail(finishedInputRequests)
  /\ UNCHANGED <<graph, ext, db, iteration, pc, target, ruleState, scanStack,
                 inputRequests, finishedTaskInfos, requestedBy, hist>>
  /\ UNCHANGED <<registered, lookups>>
  /\ UNCHANGED frontendVars

\* The inputs a task of the "late" class requests from its first
\* inputsAvailable call; their ids follow those of the start inputs.
LateRequests(k) ==
  LET rule == RuleFor(k)
  IN [i \in 1..Len(rule.late) |->
        [by |-> k, key |-> rule.late[i], id |-> Len(rule.inputs) + i - 1]]

\* task.inputsAvailable: every requested input has been delivered.
InputsAvailable ==
  /\ Phase = "ready"
  /\ LET k == Head(readyTaskInfos)
         t == tasks[k]
         rule == RuleFor(k)
         called == Event("inputsAvailable", k, "")
     IN IF rule.task = "late" /\ t.calls = 0
        THEN /\ tasks' =
                  [tasks EXCEPT ![k] =
                     [t EXCEPT
                        !.calls = 1,
                        !.waitCount = Len(LateRequests(k)),
                        !.declared = t.declared \o rule.late]]
             /\ inputRequests' = inputRequests \o LateRequests(k)
             /\ log' = Append(log, called)
                         \o NeedsInputEvents(LateRequests(k))
             /\ UNCHANGED finishedTaskInfos
        ELSE /\ tasks' =
                  [tasks EXCEPT ![k] =
                     [t EXCEPT
                        !.calls = t.calls + 1,
                        !.discovered =
                          IF rule.task = "discovered"
                          THEN DiscoveredTask_inputsAvailable(rule)
                          ELSE t.discovered]]
             /\ finishedTaskInfos' =
                  Append(finishedTaskInfos,
                         [key |-> k,
                          value |-> SimpleTask_inputsAvailable(
                                      rule, t.inputValues, ext)])
             /\ log' =
                  Append(log, called)
                    \o (IF rule.task = "discovered"
                        THEN [i \in 1..Len(rule.disc) |->
                                Event("taskDiscoveredDependency", k,
                                      rule.disc[i])]
                        ELSE <<>>)
                    \o <<Event("taskIsComplete", k, "")>>
             /\ UNCHANGED inputRequests
  /\ readyTaskInfos' = Tail(readyTaskInfos)
  /\ UNCHANGED <<graph, ext, db, iteration, pc, target, ruleState, scanStack,
                 finishedInputRequests, requestedBy, hist>>
  /\ UNCHANGED <<registered, lookups>>
  /\ UNCHANGED frontendVars

\* A completion that keeps the dependencies of the earlier run.
CompletedResult_Accumulates(old, value, t, iter) ==
  [exists |-> TRUE,
   value |-> value,
   built |-> IF ~old.exists \/ old.value # value THEN iter ELSE old.built,
   checked |-> iter,
   declared |-> old.declared \o t.declared,
   discovered |-> old.discovered \o t.discovered]

\* A completion that leaves the checked iteration of the stored record.
CompletedResult_KeepsChecked(old, value, t, iter) ==
  [exists |-> TRUE,
   value |-> value,
   built |-> IF ~old.exists \/ old.value # value THEN iter ELSE old.built,
   checked |-> IF old.exists THEN old.checked ELSE iter,
   declared |-> t.declared,
   discovered |-> t.discovered]

\* The result record written when a task completes.  The built iteration
\* moves only when the value differs from the stored one, so that dependants
\* of a rule that recomputes the same value stay valid.
CompletedResult(old, value, t, iter) ==
  [exists |-> TRUE,
   value |-> value,
   built |-> IF ~old.exists \/ old.value # value THEN iter ELSE old.built,
   checked |-> iter,
   declared |-> t.declared,
   discovered |-> t.discovered]

\* The engine processes a taskIsComplete: the record is written, the task is
\* destroyed, the discovered dependencies are demanded and the requests that
\* waited for the key become deliverable.
TaskIsComplete ==
  /\ Phase = "finish"
  /\ LET c == Head(finishedTaskInfos)
         k == c.key
         t == tasks[k]
     IN /\ db' = [db EXCEPT ![k] =
                    CompletedResult(db[k], c.value, t, iteration)]
        /\ tasks' = [tasks EXCEPT ![k] = NoTask]
        /\ ruleState' = [ruleState EXCEPT ![k] = "IsComplete"]
        /\ log' = log \o <<Event("setRuleResult", k, "")>>
                       \o StatusCallback(k, "IsComplete")
        /\ inputRequests' =
             inputRequests \o
               [i \in 1..Len(t.discovered) |->
                  [by |-> "", key |-> t.discovered[i], id |-> 0]]
        /\ finishedInputRequests' = finishedInputRequests \o requestedBy[k]
        /\ requestedBy' = [requestedBy EXCEPT ![k] = <<>>]
        /\ finishedTaskInfos' = Tail(finishedTaskInfos)
  /\ UNCHANGED <<graph, ext, iteration, pc, target, scanStack,
                 readyTaskInfos, hist>>
  /\ UNCHANGED <<registered, lookups>>
  /\ UNCHANGED frontendVars

\* The keys whose task completed during the build, in order.
RECURSIVE KeysOfEvent(_, _)
KeysOfEvent(l, ev) ==
  IF l = <<>> THEN <<>>
  ELSE IF Head(l).ev = ev THEN <<Head(l).key>> \o KeysOfEvent(Tail(l), ev)
  ELSE KeysOfEvent(Tail(l), ev)

BuiltKeys == KeysOfEvent(log, "taskIsComplete")

\* build() returns the value of the target once nothing is left to do.
FinishBuild ==
  /\ Phase = "idle"
  /\ ruleState[target] = "IsComplete"
  /\ pc' = "done"
  /\ hist' = Append(hist, [target |-> target, ext |-> ext,
                           value |-> db[target].value,
                           built |-> BuiltKeys])
  /\ UNCHANGED <<graph, ext, db, iteration, target, ruleState, scanStack,
                 tasks, inputRequests, finishedInputRequests, readyTaskInfos,
                 finishedTaskInfos, requestedBy, log>>
  /\ UNCHANGED <<registered, lookups>>
  /\ UNCHANGED frontendVars

Next ==
  \/ /\ pc \in {"idle", "done"}
     /\ \E k \in Targets(graph) : \E e \in ExtChoices : BeginBuild(k, e)
  \/ ScanValidate
  \/ ScanDependency
  \/ ScanComplete
  \/ ProcessInputRequest
  \/ ProvideValue
  \/ InputsAvailable
  \/ TaskIsComplete
  \/ FinishBuild

Spec == Init /\ [][Next]_vars

----------------------------------------------------------------------------
\* Sanity of the model.

\* The engine loop never stops with work outstanding: a running build always
\* has a next step.
NeverStuck ==
  pc = "running" /\ Phase = "idle" => ruleState[target] = "IsComplete"

----------------------------------------------------------------------------
\* Vocabulary of the properties.

\* The keys a rule's task asks for or reports: start inputs, inputs requested
\* from inputsAvailable, discovered dependencies.
StaticDepsIn(g, k) ==
  LET rule == Rules(g)[k]
  IN {rule.inputs[i] : i \in 1..Len(rule.inputs)}
       \cup {rule.late[i] : i \in 1..Len(rule.late)}
       \cup {rule.disc[i] : i \in 1..Len(rule.disc)}

RECURSIVE DepClosure(_, _)
DepClosure(g, S) ==
  LET T == S \cup UNION {StaticDepsIn(g, k) : k \in S}
  IN IF T = S THEN S ELSE DepClosure(g, T)

\* Per graph and key: the direct dependencies, the dependency closure (the
\* key included) and whether the key depends on itself.
DepsTable ==
  [g \in Graphs |-> [k \in KeysOf(g) |-> StaticDepsIn(g, k)]]

ClosureTable ==
  [g \in Graphs |-> [k \in KeysOf(g) |-> DepClosure(g, {k})]]

CycleTable ==
  [g \in Graphs |->
     [k \in KeysOf(g) |-> k \in DepClosure(g, StaticDepsIn(g, k))]]

StaticDeps(k) == DepsTable[graph][k]

\* The dependency closure of a key, the key included.
Closure(k) == ClosureTable[graph][k]

\* A key that depends on itself.
OnCycle(k) == CycleTable[graph][k]

\* The value of a key evaluated from scratch against the external state e.
RECURSIVE Eval(_, _)
Eval(k, e) ==
  LET rule == RuleFor(k)
      asked == rule.inputs \o rule.late
  IN Compute(rule, [i \in 1..Len(asked) |-> Eval(asked[i], e)], e)

\* Positions in the log of the current build.
At(ev, k) == {i \in 1..Len(log) : log[i].ev = ev /\ log[i].key = k}

AtOf(ev, k, of) ==
  {i \in 1..Len(log) : log[i].ev = ev /\ log[i].key = k /\ log[i].of = of}

Before(S, T) == \A i \in S : \A j \in T : i < j

\* The rules whose action created a task in the current build.
Executed == {k \in Keys : At("factory", k) # {}}

Builds == Len(hist)

\* The external variables that differ between two finished builds.
ChangedVars(i, j) == {v \in ExtVars : hist[i].ext[v] # hist[j].ext[v]}

\* The build that just returned repeats the target of the one before it.
Rebuild == pc = "done" /\ Builds >= 2
             /\ hist[Builds].target = hist[Builds - 1].target

NothingExecuted ==
  \A k \in Keys : At("factory", k) = {} /\ At("inputsAvailable", k) = {}

----------------------------------------------------------------------------
\* C1 as stated: once build(k) has completed and no validator changes its
\* answer (the external state stays as it was), build(k) again executes no
\* task and returns the same value.  The rule "value" of the unchangedOutputs
\* test has a validator that answers false on every build and is rebuilt.
C1_NullBuildAsStated ==
  (Rebuild /\ ChangedVars(Builds - 1, Builds) = {})
    => /\ NothingExecuted
       /\ hist[Builds].value = hist[Builds - 1].value

\* C1, amended: once build(k) has completed, the external state is unchanged
\* and no rule reachable from k has a validator that rejects on every build,
\* build(k) again executes no task (no factory call, no inputsAvailable) and
\* returns the same value.
C1_NullBuild ==
  (/\ Rebuild
   /\ ChangedVars(Builds - 1, Builds) = {}
   /\ \A k \in Closure(target) : RuleFor(k).valid # "false")
    => /\ NothingExecuted
       /\ hist[Builds].value = hist[Builds - 1].value

\* A null build of a key whose previous build executed tasks.
C1_Witness ==
  /\ Rebuild
  /\ ChangedVars(Builds - 1, Builds) = {}
  /\ \A k \in Closure(target) : RuleFor(k).valid # "false"
  /\ Len(hist[Builds - 1].built) >= 3
  /\ NothingExecuted

\* C2: the value build(k) returns equals the value a from-scratch evaluation
\* of k's rule graph gives with the current external state, after any
\* sequence of builds and changes of the external state.
C2_Correct ==
  pc = "done" => hist[Builds].value = Eval(target, ext)

\* A third build that returns a value different from both earlier builds,
\* with part of the graph reused.
C2_Witness ==
  /\ pc = "done"
  /\ Builds = 3
  /\ hist[3].value # hist[2].value
  /\ hist[3].value # hist[1].value
  /\ hist[2].value # hist[1].value
  /\ Executed # {}
  /\ Executed # Closure(target)

----------------------------------------------------------------------------
\* The leaf rules that read external variable v.
LeafOf(v) == {k \in Keys : RuleFor(k).valid = "ext" /\ RuleFor(k).var = v}

\* Exactly one leaf of the target's closure changed since the previous build
\* of the same target.
OneLeafChanged(leaf) ==
  /\ Rebuild
  /\ leaf \in Closure(target)
  /\ \E v \in ExtVars :
       ChangedVars(Builds - 1, Builds) = {v} /\ leaf \in LeafOf(v)

Once(k) ==
  /\ Cardinality(At("factory", k)) = 1
  /\ Cardinality(At("taskIsComplete", k)) = 1

\* Every executed rule ran once, and computed after its rebuilt inputs.
ExecutedInOrder ==
  \A k \in Executed :
    /\ Once(k)
    /\ \A d \in StaticDeps(k) \cap Executed :
         Before(At("taskIsComplete", d), At("inputsAvailable", k))

\* The value of d was recomputed in this build and differs from the one that
\* was stored.
ValueChanged(d) == d \in Executed /\ db[d].built = iteration

Range(q) == {q[i] : i \in 1..Len(q)}

\* The scenario of C4 starts with build number i.
C4_Scenario(i) ==
  /\ i + 2 <= Builds
  /\ hist[i].target = "value-R2"
  /\ hist[i + 1].target = "value-R"
  /\ ChangedVars(i, i + 1) # {}
  /\ hist[i + 2].target = "value-R2"
  /\ ChangedVars(i + 1, i + 2) = {}

\* C4: value-R2 was built, an input of value-R changes and build(value-R)
\* rebuilds value-R without touching value-D and value-R2; the next
\* build(value-R2) executes exactly value-D and value-R2, in that order, and
\* a further build of value-R or value-R2 executes nothing.
C4_Staleness ==
  \A i \in 1..Builds :
    C4_Scenario(i) =>
      /\ "value-R" \in Range(hist[i + 1].built)
      /\ Range(hist[i + 1].built) \cap {"value-D", "value-R2"} = {}
      /\ hist[i + 2].built = <<"value-D", "value-R2">>
      /\ (i + 3 <= Builds /\ ChangedVars(i + 2, i + 3) = {})
           => hist[i + 3].built = <<>>

\* The whole scenario happened: the fourth build, after the rebuild of
\* value-R2, executed nothing.
C4_Witness ==
  /\ C4_Scenario(1)
  /\ Builds = 4
  /\ ChangedVars(3, 4) = {}
  /\ hist[3].built = <<"value-D", "value-R2">>
  /\ hist[4].built = <<>>

\* C5: a rule whose validator returns false on every build is executed in
\* every build that reaches it; when its recomputed value equals the stored
\* one, a rule that depends on it, has no validator objection and no other
\* changed dependency, is not executed.
C5_CutOff ==
  pc = "done" =>
    \A v \in Closure(target) :
      RuleFor(v).valid = "false" =>
        /\ v \in Executed
        /\ (Rebuild /\ db[v].built < iteration) =>
             \A r \in Closure(target) :
               (/\ v \in StaticDeps(r)
                /\ RuleFor(r).valid = "none"
                /\ \A d \in StaticDeps(r) : ~ValueChanged(d))
                 => r \notin Executed

\* The second build of "result": "value" ran again, "result" did not.
C5_Witness ==
  /\ Rebuild
  /\ graph = "unchanged"
  /\ "value" \in Executed
  /\ "result" \notin Executed
  /\ db["value"].checked = iteration
  /\ db["value"].built < iteration

----------------------------------------------------------------------------
\* The build that is running or has just returned is the first one: no
\* result was stored when it began.
FirstBuild == iteration = 1 /\ pc \in {"running", "done"}

\* The inputs the task of rule t asks for with taskNeedsInput, in request
\* order.
Asked(t) == RuleFor(t).inputs \o RuleFor(t).late

\* Positions at which key d is requested with taskNeedsInput.
RequestsOf(d) ==
  {i \in 1..Len(log) : log[i].ev = "taskNeedsInput" /\ log[i].of = d}

\* The first taskNeedsInput for key d in this build came from task t.
FirstRequestedBy(d, t) ==
  \E q \in AtOf("taskNeedsInput", t, d) : \A p \in RequestsOf(d) : q <= p

\* A rule whose task asks for no input.
IsLeaf(k) == StaticDeps(k) = {}

\* inputsAvailable of t comes only after every input t had requested by then
\* has completed.
InputsCompleteFirst ==
  \A a \in 1..Len(log) :
    log[a].ev = "inputsAvailable" =>
      \A q \in 1..(a - 1) :
        (log[q].ev = "taskNeedsInput" /\ log[q].key = log[a].key) =>
          \E c \in 1..(a - 1) :
            log[c].ev = "IsComplete" /\ log[c].key = log[q].of

\* No rule is executed twice, and when the build returns every rule of the
\* target's closure was executed once.
ExecutedExactlyOnce ==
  \A k \in Keys :
    /\ Cardinality(At("factory", k)) <= 1
    /\ Cardinality(At("taskIsComplete", k)) <= 1
    /\ (pc = "done" /\ k \in Closure(target)) => Once(k)

\* Input number j of t, once t has requested both, does not complete before
\* input number i < j.
CompleteInRequestOrder(t, i, j) ==
  (/\ AtOf("taskNeedsInput", t, Asked(t)[i]) # {}
   /\ AtOf("taskNeedsInput", t, Asked(t)[j]) # {}) =>
    \A c2 \in At("taskIsComplete", Asked(t)[j]) :
      \E c1 \in At("taskIsComplete", Asked(t)[i]) : c1 < c2

----------------------------------------------------------------------------
\* A dependency cycle is reachable from the target of the build.
\* What is left of a set of keys after the keys none of whose dependencies
\* is in the set have been taken away, again and again: nothing, unless the
\* set holds a cycle.
RECURSIVE Peel(_)
Peel(S) ==
  LET free == {k \in S : StaticDeps(k) \cap S = {}}
  IN IF free = {} THEN S ELSE Peel(S \ free)

\* A dependency cycle is reachable from the target of the build.
CyclicTarget ==
  /\ pc \in {"running", "aborted", "done"}
  /\ Peel(Closure(target)) # {}

CycleReports == {i \in 1..Len(log) : log[i].ev = "cycleDetected"}

----------------------------------------------------------------------------
\* Key k appears in some engine event of this build.
TakesPart(k) ==
  \E i \in 1..Len(log) : log[i].key = k \/ log[i].of = k

\* Key k was notified IsScanning once and, later, IsComplete once.
NotifiedTwice(k) ==
  /\ Cardinality(At("IsScanning", k)) = 1
  /\ Cardinality(At("IsComplete", k)) = 1
  /\ Before(At("IsScanning", k), At("IsComplete", k))

\* C9: in every build, each rule that takes part in the build has its status
\* callback invoked exactly twice, once with IsScanning and then once with
\* IsComplete, whether the rule is executed or found valid by scanning; a
\* rule that takes no part has no callback.
C9_StatusCallbacks ==
  \A k \in Keys :
    LET scanning == At("IsScanning", k)
        complete == At("IsComplete", k)
        twice == /\ Cardinality(scanning) = 1
                 /\ Cardinality(complete) = 1
                 /\ Before(scanning, complete)
    IN /\ Cardinality(scanning) <= 1
       /\ complete # {} => twice
       /\ pc = "done" =>
            /\ TakesPart(k) <=> k \in Closure(target)
            /\ TakesPart(k) => twice
            /\ ~TakesPart(k) => scanning = {} /\ complete = {}

\* A build that returned with one rule executed and another found valid by
\* scanning, each notified twice.
C9_Witness ==
  /\ pc = "done"
  /\ \E k \in Executed : NotifiedTwice(k)
  /\ \E k \in Closure(target) \ Executed : NotifiedTwice(k)

----------------------------------------------------------------------------
\* Positions at which a dependant is handed the value of key t.
Observed(t) ==
  {i \in 1..Len(log) : log[i].ev = "provideValue" /\ log[i].of = t}

\* An event ev of key k, or ev of key k about key of, before position j.
Earlier(ev, k, j) ==
  \E i \in 1..(j - 1) : log[i].ev = ev /\ log[i].key = k

EarlierOf(ev, k, of, j) ==
  \E i \in 1..(j - 1) : log[i].ev = ev /\ log[i].key = k /\ log[i].of = of

\* No event ev of key k after position j.
NoneLater(ev, k, j) ==
  \A i \in (j + 1)..Len(log) : ~(log[i].ev = ev /\ log[i].key = k)

\* start precedes every provideValue of a task.
StartFirst ==
  \A j \in 1..Len(log) :
    log[j].ev = "provideValue" =>
      /\ Earlier("start", log[j].key, j)
      /\ NoneLater("start", log[j].key, j)

\* A dependant is handed the value of a rule executed in this build only
\* after the rule's inputsAvailable calls and after its result was stored.
CompletionObservedLast ==
  \A j \in 1..Len(log) :
    (log[j].ev = "provideValue" /\ log[j].of \in Executed) =>
      /\ Earlier("inputsAvailable", log[j].of, j)
      /\ NoneLater("inputsAvailable", log[j].of, j)
      /\ Earlier("setRuleResult", log[j].of, j)

----------------------------------------------------------------------------
\* The tasks of key k that were created in this build and not yet destroyed:
\* factory calls less the completions the engine has processed.
LiveTasks(k) ==
  Cardinality(At("factory", k)) - Cardinality(At("setRuleResult", k))

\* C11: in every reachable state of a build there is at most one live task
\* per key: the factory of a rule is not invoked while a task of that key
\* exists and its completion has not been processed, also when several tasks
\* have requested the key and wait for it.
C11_OneLiveTask ==
  \A k \in Keys :
    LET live == LiveTasks(k)
    IN /\ live \in {0, 1}
       /\ tasks[k].live <=> live = 1

\* Two tasks wait for a key whose task is live.
C11_Witness ==
  \E k \in Keys :
    /\ tasks[k].live
    /\ LiveTasks(k) = 1
    /\ Cardinality({requestedBy[k][i].by : i \in 1..Len(requestedBy[k])}) = 2

----------------------------------------------------------------------------
\* The keys that task k named in this build with the task-facing callback ev,
\* in call order.
NamedBy(k, ev) ==
  LET calls == SelectSeq(log, LAMBDA e : e.ev = ev /\ e.key = k)
  IN [i \in 1..Len(calls) |-> calls[i].of]

\* C14: the result record written when a task completes lists exactly the
\* keys the task requested (taskNeedsInput) or discovered
\* (taskDiscoveredDependency) during that run, in call order; the
\* dependencies recorded by an earlier run of the rule do not accumulate.
C14_DependenciesPerRun ==
  \A k \in Keys :
    At("setRuleResult", k) # {} =>
      /\ db[k].declared = NamedBy(k, "taskNeedsInput")
      /\ db[k].discovered = NamedBy(k, "taskDiscoveredDependency")
      /\ Len(db[k].declared) = Len(Asked(k))
      /\ Len(db[k].discovered) = Len(RuleFor(k).disc)

\* A rule with one input ("flag", input value-A) was executed in each of
\* three builds and its record lists one dependency.
C14_Witness ==
  /\ pc = "done"
  /\ graph = "cutoff"
  /\ Builds = 3
  /\ \A i \in 1..3 : "flag" \in Range(hist[i].built)
  /\ db["flag"].declared = <<"value-A">>
  /\ db["flag"].discovered = <<>>

----------------------------------------------------------------------------
\* Key k was named by build() or by a taskNeedsInput of this build and the
\* engine has taken the request.
Demanded(k) == ruleState[k] # "NeedsToRun" \/ tasks[k].live

\* C13: when build() or a taskNeedsInput names a key with no registered rule,
\* delegate.lookupRule is consulted exactly once for that key, over all
\* builds; if it returns no rule the build fails, and if it returns a rule
\* the rule is registered and used for every later request of the key.  A key
\* registered with addRule is never looked up.
C13_UnknownKey ==
  /\ \A k \in Keys :
       /\ lookups[k] <= 1
       /\ k \notin Unregistered(graph) => lookups[k] = 0 /\ k \in registered
       /\ (lookups[k] = 1 /\ LookupRule(k) = "rule") => k \in registered
       /\ (lookups[k] = 1 /\ LookupRule(k) # "rule") =>
            /\ pc = "failed"
            /\ k \notin registered
            /\ At("factory", k) = {}
       /\ Demanded(k) => k \in registered /\ (k \in Unregistered(graph)
                                                => lookups[k] = 1)
       /\ At("lookupRule", k) # {} =>
            Before(At("lookupRule", k), At("IsScanning", k))
  /\ pc = "failed" =>
       \E k \in Unregistered(graph) :
         lookups[k] = 1 /\ LookupRule(k) # "rule"
  /\ pc = "done" =>
       \A k \in Closure(target) \cap Unregistered(graph) :
         lookups[k] = 1 /\ db[k].exists

\* The key "dyn" was looked up in an earlier build and is used again, by two
\* tasks, in a later build that re-executes nothing and looks nothing up.
C13_Witness ==
  /\ pc = "done"
  /\ graph = "lookup"
  /\ Builds >= 2
  /\ target = "top"
  /\ lookups["dyn"] = 1
  /\ At("lookupRule", "dyn") = {}
  /\ At("IsComplete", "dyn") # {}
  /\ hist[1].built = <<"dyn", "mid", "top">>

\* C13, the failing side: the key "ghost" has no rule and the delegate
\* returns none; the build of "top" failed after one lookup.
C13_FailedWitness ==
  /\ pc = "failed"
  /\ graph = "missing"
  /\ target = "top"
  /\ lookups["ghost"] = 1
  /\ At("start", "top") # {}

----------------------------------------------------------------------------
\* The build system: ExternalCommand and BuildSystemFrontend
\* (lib/BuildSystem/ExternalCommand.cpp, BuildSystemFrontend.cpp) on top of
\* the engine and a lane-based execution queue.

\* Largest number of CPUs the host reports.
MaxCPUs == 1

\* The build description: four commands.  c1 and c4 read source files; c2
\* consumes an output of c1 and the virtual output of c4; c3 consumes the
\* output of c2 and the file output of c4.
CommandNames == {"c1", "c2", "c3", "c4"}

CommandTable ==
  [c \in CommandNames |->
     CASE c = "c1" -> [inputs |-> <<"src">>, outputs |-> <<"a">>]
       [] c = "c2" -> [inputs |-> <<"a", "<stamp>">>, outputs |-> <<"b">>]
       [] c = "c3" -> [inputs |-> <<"b", "gen">>, outputs |-> <<"c">>]
       [] c = "c4" -> [inputs |-> <<"src2">>,
                       outputs |-> <<"gen", "<stamp>">>]]

SourceNodes == {"src", "src2"}

NodeNames == {"src", "src2", "a", "b", "c", "gen", "<stamp>"}

\* The target that is built and the nodes it lists.
TargetName == "all"

TargetNodes == <<"c">>

BuildKeys == CommandNames \cup NodeNames \cup {TargetName}

\* BuildNode::isVirtual: a node that stands for no file.
isVirtual(node) == node = "<stamp>"

\* The commands that list the node among their outputs (the producer list).
Producers(node) ==
  {c \in CommandNames :
     \E i \in 1..Len(CommandTable[c].outputs) :
       CommandTable[c].outputs[i] = node}

Producer(node) == CHOOSE c \in Producers(node) : TRUE

\* FileInfo: a stamp; FileInfo{} (all fields zero) is the missing file.
MissingFileInfo == 0

isMissing(info) == info = MissingFileInfo

\* BuildValue: the tagged union of section 4.6.
BuildValue(kind, outputInfos, signature) ==
  [kind |-> kind, outputInfos |-> outputInfos, signature |-> signature]

makeMissingInput == BuildValue("MissingInput", <<>>, 0)

makeExistingInput(info) == BuildValue("ExistingInput", <<info>>, 0)

makeVirtualInput == BuildValue("VirtualInput", <<>>, 0)

makeFailedInput == BuildValue("FailedInput", <<>>, 0)

makeSkippedCommand == BuildValue("SkippedCommand", <<>>, 0)

makeFailedCommand == BuildValue("FailedCommand", <<>>, 0)

makeSuccessfulCommand(outputInfos, signature) ==
  BuildValue("SuccessfulCommand", outputInfos, signature)

makeTarget == BuildValue("Target", <<>>, 0)

\* basic::hashString, on the node names of the build description.
hashString(name) ==
  CASE name = "src" -> 1
    [] name = "src2" -> 2
    [] name = "a" -> 3
    [] name = "b" -> 4
    [] name = "c" -> 5
    [] name = "gen" -> 6
    [] name = "<stamp>" -> 7

\* Bitwise exclusive or.
RECURSIVE Xor(_, _)
Xor(x, y) ==
  IF x = 0 THEN y
  ELSE IF y = 0 THEN x
  ELSE (((x % 2) + (y % 2)) % 2) + (2 * Xor(x \div 2, y \div 2))

RECURSIVE XorHashes(_, _)
XorHashes(result, names) ==
  IF names = <<>> THEN result
  ELSE XorHashes(Xor(result, hashString(Head(names))), Tail(names))

\* ExternalCommand::getSignature on a command with the given nodes.
SignatureOf(inputs, outputs) == XorHashes(XorHashes(0, inputs), outputs)

getSignature(c) ==
  SignatureOf(CommandTable[c].inputs, CommandTable[c].outputs)

IndexOf(seq, x) == CHOOSE i \in 1..Len(seq) : seq[i] = x

\* A projection that hands a failed or skipped command on as if the output
\* were there.
getResultForOutput_HidesFailure(c, node, value) ==
  IF isVirtual(node) \/ value.kind # "SuccessfulCommand"
  THEN makeVirtualInput
  ELSE makeExistingInput(
         value.outputInfos[IndexOf(CommandTable[c].outputs, node)])

\* ExternalCommand::getResultForOutput: the value of one output node of the
\* command, given the value of the command.
getResultForOutput(c, node, value) ==
  IF value.kind \in {"FailedCommand", "SkippedCommand"}
  THEN makeFailedInput
  ELSE IF isVirtual(node)
  THEN makeVirtualInput
  ELSE LET info == value.outputInfos[IndexOf(CommandTable[c].outputs, node)]
       IN IF isMissing(info) THEN makeMissingInput
          ELSE makeExistingInput(info)

\* A validity check that does not look at the signature.
isResultValidFor_IgnoresSignature(inputs, outputs, value, info) ==
  value.kind = "SuccessfulCommand"

\* The loop of ExternalCommand::isResultValid over the outputs, from the
\* i-th on: a virtual output is ignored, a missing file or one whose
\* information differs from the stored one makes the result invalid.
RECURSIVE OutputsUnchanged(_, _, _, _)
OutputsUnchanged(outputs, value, info, i) ==
  IF i > Len(outputs) THEN TRUE
  ELSE IF isVirtual(outputs[i])
  THEN OutputsUnchanged(outputs, value, info, i + 1)
  ELSE IF isMissing(info[outputs[i]]) THEN FALSE
  ELSE IF value.outputInfos[i] # info[outputs[i]] THEN FALSE
  ELSE OutputsUnchanged(outputs, value, info, i + 1)

\* A validity check that takes the value of a failed or skipped command
\* for valid.
isResultValidFor_AcceptsFailures(inputs, outputs, value, info) ==
  IF value.kind # "SuccessfulCommand" THEN TRUE
  ELSE IF value.signature # SignatureOf(inputs, outputs) THEN FALSE
  ELSE OutputsUnchanged(outputs, value, info, 1)

\* ExternalCommand::isResultValid on a command with the given nodes, against
\* the files as they are (info: node -> FileInfo).
isResultValidFor(inputs, outputs, value, info) ==
  IF value.kind # "SuccessfulCommand" THEN FALSE
  ELSE IF value.signature # SignatureOf(inputs, outputs) THEN FALSE
  ELSE OutputsUnchanged(outputs, value, info, 1)

\* shouldSkip and hasMissingInput of a command that was never skipped.
NoFlags == [shouldSkip |-> FALSE, hasMissingInput |-> FALSE]

\* A start that leaves the flags as the last execution set them.
ExternalCommand_startFlags_Kept(flags) ==
  [shouldSkip |-> flags.shouldSkip, hasMissingInput |-> flags.hasMissingInput]

\* ExternalCommand::start: shouldSkip = false; hasMissingInput = false.
ExternalCommand_startFlags(flags) == NoFlags

\* ExternalCommand::start: shouldSkip and hasMissingInput are reset, and
\* every input is requested, ids 0..n-1.
ExternalCommand_start(c) ==
  [i \in 1..Len(CommandTable[c].inputs) |->
     [by |-> c, key |-> CommandTable[c].inputs[i], id |-> i - 1]]

\* ExternalCommand::provideValue: the flags of the task after the value of
\* one input was delivered, and the number of errors reported.
ExternalCommand_provideValue(t, inputID, value) ==
  IF value.kind \notin {"ExistingInput", "VirtualInput"}
  THEN [shouldSkip |-> TRUE,
        hasMissingInput |->
          t.hasMissingInput \/ value.kind = "MissingInput",
        errors |-> IF value.kind = "MissingInput" THEN 1 ELSE 0]
  ELSE [shouldSkip |-> t.shouldSkip,
        hasMissingInput |-> t.hasMissingInput,
        errors |-> 0]

\* A command that does not look at the cancellation flag.
ExternalCommand_inputsAvailable_IgnoresCancel(t, cancelled) ==
  IF t.shouldSkip
  THEN [complete |-> TRUE,
        errors |-> IF t.hasMissingInput THEN 1 ELSE 0,
        failures |-> IF t.hasMissingInput THEN 1 ELSE 0]
  ELSE [complete |-> FALSE, errors |-> 0, failures |-> 0]

\* An inputsAvailable that runs the command whatever its inputs were.
ExternalCommand_inputsAvailable_NeverSkips(t, cancelled) ==
  [complete |-> FALSE, errors |-> 0, failures |-> 0]

\* ExternalCommand::inputsAvailable on the engine thread: either the task
\* completes with SkippedCommand (reporting an error and a command failure
\* when an input was missing) or the job is added to the execution queue.
ExternalCommand_inputsAvailable(t, cancelled) ==
  IF cancelled
  THEN [complete |-> TRUE, errors |-> 0, failures |-> 0]
  ELSE IF t.shouldSkip
  THEN [complete |-> TRUE,
        errors |-> IF t.hasMissingInput THEN 1 ELSE 0,
        failures |-> IF t.hasMissingInput THEN 1 ELSE 0]
  ELSE [complete |-> FALSE, errors |-> 0, failures |-> 0]

\* The value the job reports after the external command succeeded: the file
\* information of every output (FileInfo{} for a virtual one) and the
\* signature.
SuccessValue(c, info) ==
  makeSuccessfulCommand(
    [i \in 1..Len(CommandTable[c].outputs) |->
       IF isVirtual(CommandTable[c].outputs[i]) THEN MissingFileInfo
       ELSE info[CommandTable[c].outputs[i]]],
    getSignature(c))

\* BuildSystemFrontendDelegate::isCancelled: stop after any command failure.
isCancelled == numFailedCommands > 0

\* A delegate that counts every command failure twice.
hadCommandFailure_Twice(n) == n + 2

\* A delegate that does not count command failures.
hadCommandFailure_Forgets(n) == n

\* BuildSystemFrontendDelegate::hadCommandFailure.
hadCommandFailure(n) == n + 1

\* BuildSystemFrontendDelegate::error: ++numErrors.
error(n) == n + 1

\* A queue that is created without a lane.
NumLanes_None(inv) == 0

\* BuildSystemFrontendDelegate::createExecutionQueue: the number of lanes.
\* A host that cannot tell its CPUs gets one lane and an error.
NumLanes(inv) ==
  IF inv.useSerialBuild THEN 1
  ELSE IF inv.numCPUs < 0 THEN 1
  ELSE inv.numCPUs + 2

\* A queue creation that keeps quiet about a failed CPU detection.
createExecutionQueueErrors_Silent(inv) == 0

\* BuildSystemFrontendDelegate::createExecutionQueue: the errors reported.
createExecutionQueueErrors(inv) ==
  IF ~inv.useSerialBuild /\ inv.numCPUs < 0 THEN 1 ELSE 0

\* The inputs a key's task requests from start: a command its input nodes, a
\* produced node the command that produces it, the target its nodes.
BuildTask_start(k) ==
  IF k \in CommandNames THEN ExternalCommand_start(k)
  ELSE IF k = TargetName
  THEN [i \in 1..Len(TargetNodes) |->
          [by |-> k, key |-> TargetNodes[i], id |-> i - 1]]
  ELSE IF Producers(k) # {}
  THEN <<[by |-> k, key |-> Producer(k), id |-> 0]>>
  ELSE <<>>

NoValue == BuildValue("none", <<>>, 0)

\* The task of a key after start has run.
StartedBuildTask(k) ==
  [live |-> TRUE,
   waitCount |-> InitialWaitCount(BuildTask_start(k)),
   inputValues |-> [i \in 1..Len(BuildTask_start(k)) |-> NoValue],
   declared |-> [i \in 1..Len(BuildTask_start(k)) |->
                   BuildTask_start(k)[i].key],
   discovered |-> <<>>,
   calls |-> 0,
   shouldSkip |-> ExternalCommand_startFlags(tasks[k]).shouldSkip,
   hasMissingInput |-> ExternalCommand_startFlags(tasks[k]).hasMissingInput]

\* A key without a task.  shouldSkip and hasMissingInput are members of the
\* command, not of its task: they stay as the last execution left them.
IdleTask(flags) ==
  [live |-> FALSE, waitCount |-> 0, inputValues |-> <<>>,
   declared |-> <<>>, discovered |-> <<>>, calls |-> 0,
   shouldSkip |-> flags.shouldSkip,
   hasMissingInput |-> flags.hasMissingInput]

\* What is remembered of a command over the build: how often its job was
\* submitted and executed, whether the build was cancelled when its
\* inputs were available and when a lane took its job, and the kinds of the
\* input values delivered to it.
NotRun(c) ==
  [submitted |-> 0, executed |-> 0,
   readyCancelled |-> FALSE, takenCancelled |-> FALSE,
   inputs |-> [i \in 1..Len(CommandTable[c].inputs) |-> "none"]]

\* The database has no record of a key.
NoBuildResult == [NoResult EXCEPT !.value = NoValue]

IdleLane == [state |-> "idle", cmd |-> ""]

Invocations ==
  [useSerialBuild : BOOLEAN,
   numCPUs : {-1} \cup (1..MaxCPUs),
   setup : {"ok", "chdir", "trace", "db", "load"}]

\* The files before the build: a source file is there or not, nothing has
\* been produced yet.
InitialFiles ==
  {f \in [NodeNames -> {MissingFileInfo, 1}] :
     \A n \in NodeNames \ SourceNodes : f[n] = MissingFileInfo}

\* The flags of the commands as an earlier build of the same commands can
\* have left them: no command was skipped; or src and src2 were missing, so
\* that c1 and c4 had a missing input and c2 and c3 a failed one; or c1 and
\* c4 succeeded without leaving the files a and gen, so that c2 and c3 had
\* a missing input.
Skipped == [shouldSkip |-> TRUE, hasMissingInput |-> FALSE]

MissedInput == [shouldSkip |-> TRUE, hasMissingInput |-> TRUE]

EarlierFlags ==
  {[c \in CommandNames |-> NoFlags],
   [c \in CommandNames |->
      IF c \in {"c1", "c4"} THEN MissedInput ELSE Skipped],
   [c \in CommandNames |->
      IF c \in {"c2", "c3"} THEN MissedInput ELSE NoFlags]}

BuildInit ==
  /\ graph = "buildfile"
  /\ ext = <<>>
  /\ db = [k \in BuildKeys |-> NoBuildResult]
  /\ iteration = 0
  /\ pc = "idle"
  /\ target = ""
  /\ ruleState = [k \in BuildKeys |-> "NeedsToRun"]
  /\ scanStack = <<>>
  /\ tasks \in {[k \in BuildKeys |->
                   IdleTask(IF k \in CommandNames THEN e[k] ELSE NoFlags)] :
                 e \in EarlierFlags}
  /\ inputRequests = <<>>
  /\ finishedInputRequests = <<>>
  /\ readyTaskInfos = <<>>
  /\ finishedTaskInfos = <<>>
  /\ requestedBy = [k \in BuildKeys |-> <<>>]
  /\ log = <<>>
  /\ hist = <<>>
  /\ registered = BuildKeys
  /\ lookups = <<>>
  /\ invocation \in Invocations
  /\ fileInfo \in InitialFiles
  /\ jobs = <<>>
  /\ lanes = <<>>
  /\ ran = [c \in CommandNames |-> NotRun(c)]
  /\ ruleResult = [k \in BuildKeys |-> NoValue]
  /\ numErrors = 0
  /\ numFailedCommands = 0
  /\ buildResult = "none"
  /\ command = ""
  /\ prior = <<>>
  /\ valid = "none"
  /\ NoParser
  /\ NoLoader

\* What a build of the build system leaves alone: the state of the engine's
\* unit tests and of a validity check.
engineOnlyVars ==
  <<graph, ext, scanStack, log, hist, registered, lookups, command, prior,
    valid, parserVars, loaderVars>>

\* BuildSystemFrontend::build gives up before the build starts: the
\* directory cannot be entered, tracing cannot be enabled, the database
\* cannot be attached or the build file does not load.  Each is reported as
\* an error.
FrontendFails ==
  /\ pc = "idle"
  /\ invocation.setup # "ok"
  /\ numErrors' = error(numErrors)
  /\ buildResult' = "false"
  /\ pc' = "done"
  /\ UNCHANGED <<db, iteration, target, ruleState, tasks, inputRequests,
                 finishedInputRequests, readyTaskInfos, finishedTaskInfos,
                 requestedBy, invocation, fileInfo, jobs, lanes, ran,
                 ruleResult, numFailedCommands>>
  /\ UNCHANGED engineOnlyVars

\* BuildSystemFrontend::build starts the build: the execution queue is
\* created and the target is requested from the engine.
FrontendStarts ==
  /\ pc = "idle"
  /\ invocation.setup = "ok"
  /\ lanes' = [l \in 1..NumLanes(invocation) |-> IdleLane]
  /\ numErrors' = numErrors + createExecutionQueueErrors(invocation)
  /\ iteration' = iteration + 1
  /\ target' = TargetName
  /\ inputRequests' = <<[by |-> "", key |-> TargetName, id |-> 0]>>
  /\ pc' = "running"
  /\ UNCHANGED <<db, ruleState, tasks, finishedInputRequests,
                 readyTaskInfos, finishedTaskInfos, requestedBy, invocation,
                 fileInfo, jobs, ran, ruleResult, numFailedCommands,
                 buildResult>>
  /\ UNCHANGED engineOnlyVars

\* A request that is handed to its requester with the value of the key.
Finished(r, value) ==
  [by |-> r.by, key |-> r.key, id |-> r.id, value |-> value]

\* The engine takes the next input request.  No key has a prior result, so a
\* key that is met for the first time needs to run and its task is started.
BuildProcessRequest ==
  /\ Phase = "request"
  /\ LET r == Head(inputRequests)
         d == r.key
     IN CASE ruleState[d] = "IsComplete" ->
               /\ finishedInputRequests' =
                    IF r.by = "" THEN finishedInputRequests
                    ELSE Append(finishedInputRequests,
                                Finished(r, ruleResult[d]))
               /\ inputRequests' = Tail(inputRequests)
               /\ UNCHANGED <<tasks, readyTaskInfos, requestedBy>>
          [] Fresh(d) ->
               /\ tasks' = [tasks EXCEPT ![d] = StartedBuildTask(d)]
               /\ inputRequests' = Tail(inputRequests) \o BuildTask_start(d)
               /\ readyTaskInfos' =
                    IF StartedBuildTask(d).waitCount = 0
                    THEN Append(readyTaskInfos, d) ELSE readyTaskInfos
               /\ requestedBy' =
                    IF r.by = "" THEN requestedBy
                    ELSE [requestedBy EXCEPT ![d] = Append(@, r)]
               /\ UNCHANGED finishedInputRequests
          [] OTHER ->
               /\ requestedBy' =
                    IF r.by = "" THEN requestedBy
                    ELSE [requestedBy EXCEPT ![d] = Append(@, r)]
               /\ inputRequests' = Tail(inputRequests)
               /\ UNCHANGED <<tasks, readyTaskInfos, finishedInputRequests>>
  /\ UNCHANGED <<db, iteration, pc, target, ruleState, finishedTaskInfos>>
  /\ UNCHANGED frontendVars
  /\ UNCHANGED engineOnlyVars

\* task.provideValue on the engine thread.  A command looks at the value
\* (ExternalCommand::provideValue); a node and the target keep it.
BuildProvideValue ==
  /\ Phase = "deliver"
  /\ LET r == Head(finishedInputRequests)
         t == tasks[r.by]
         flags == IF r.by \in CommandNames
                  THEN ExternalCommand_provideValue(t, r.id, r.value)
                  ELSE [shouldSkip |-> FALSE, hasMissingInput |-> FALSE,
                        errors |-> 0]
     IN /\ tasks' =
             [tasks EXCEPT ![r.by] =
                [t EXCEPT
                   !.inputValues = [@ EXCEPT ![r.id + 1] = r.value],
                   !.waitCount = t.waitCount - 1,
                   !.shouldSkip = flags.shouldSkip,
                   !.hasMissingInput = flags.hasMissingInput]]
        /\ numErrors' = numErrors + flags.errors
        /\ ran' = IF r.by \in CommandNames
                  THEN [ran EXCEPT ![r.by].inputs[r.id + 1] = r.value.kind]
                  ELSE ran
        /\ readyTaskInfos' =
             IF t.waitCount = 1 THEN Append(readyTaskInfos, r.by)
             ELSE readyTaskInfos
        /\ finishedInputRequests' = Tail(finishedInputRequests)
  /\ UNCHANGED <<db, iteration, pc, target, ruleState, inputRequests,
                 finishedTaskInfos, requestedBy, invocation, fileInfo, jobs,
                 lanes, ruleResult, numFailedCommands, buildResult>>
  /\ UNCHANGED engineOnlyVars

\* The value a node or the target completes with from inputsAvailable.
NodeValue(k, t) ==
  IF k = TargetName THEN makeTarget
  ELSE IF Producers(k) # {}
  THEN getResultForOutput(Producer(k), k, t.inputValues[1])
  ELSE IF isMissing(fileInfo[k]) THEN makeMissingInput
  ELSE makeExistingInput(fileInfo[k])

\* A queue that takes every job twice.
addJob_Twice(queue, c) == Append(Append(queue, c), c)

\* BuildSystemCommandInterface::addJob: the job joins the queue; the caller
\* does not wait for a lane.
addJob(queue, c) == Append(queue, c)

\* task.inputsAvailable on the engine thread.  A command is skipped or its
\* job is added to the execution queue (ExternalCommand::inputsAvailable);
\* a node and the target complete at once.
BuildInputsAvailable ==
  /\ Phase = "ready"
  /\ LET k == Head(readyTaskInfos)
         t == tasks[k]
         d == ExternalCommand_inputsAvailable(t, isCancelled)
     IN IF k \in CommandNames
        THEN /\ ran' = [ran EXCEPT
                          ![k].readyCancelled = isCancelled,
                          ![k].submitted =
                            IF d.complete THEN @ ELSE @ + 1]
             /\ numErrors' = numErrors + d.errors
             /\ numFailedCommands' =
                  IF d.failures = 1 THEN hadCommandFailure(numFailedCommands)
                  ELSE numFailedCommands
             /\ IF d.complete
                THEN /\ finishedTaskInfos' =
                          Append(finishedTaskInfos,
                                 [key |-> k, value |-> makeSkippedCommand])
                     /\ UNCHANGED jobs
                ELSE /\ jobs' = addJob(jobs, k)
                     /\ UNCHANGED finishedTaskInfos
        ELSE /\ finishedTaskInfos' =
                  Append(finishedTaskInfos,
                         [key |-> k, value |-> NodeValue(k, t)])
             /\ UNCHANGED <<ran, numErrors, numFailedCommands, jobs>>
  /\ tasks' = [tasks EXCEPT ![Head(readyTaskInfos)].calls = @ + 1]
  /\ readyTaskInfos' = Tail(readyTaskInfos)
  /\ UNCHANGED <<db, iteration, pc, target, ruleState, inputRequests,
                 finishedInputRequests, requestedBy, invocation, fileInfo,
                 lanes, ruleResult, buildResult>>
  /\ UNCHANGED engineOnlyVars

\* An engine that hands the value on without writing the record.
PersistResult_Skips(old, value, t, iter) == old

\* setRuleResult: the record the engine writes to the database when a task
\* has completed.
PersistResult(old, value, t, iter) == CompletedResult(old, value, t, iter)

\* The engine processes a completion that a task or a lane has reported:
\* the record is written, the task is destroyed, and only then the requests
\* that waited for the key become deliverable.
BuildTaskIsComplete ==
  /\ Phase = "finish"
  /\ LET c == Head(finishedTaskInfos)
         k == c.key
     IN /\ db' = [db EXCEPT ![k] =
                    PersistResult(db[k], c.value, tasks[k], iteration)]
        /\ ruleResult' = [ruleResult EXCEPT ![k] = c.value]
        /\ tasks' = [tasks EXCEPT ![k] = IdleTask(tasks[k])]
        /\ ruleState' = [ruleState EXCEPT ![k] = "IsComplete"]
        /\ finishedInputRequests' =
             finishedInputRequests \o
               [i \in 1..Len(requestedBy[k]) |->
                  Finished(requestedBy[k][i], c.value)]
        /\ requestedBy' = [requestedBy EXCEPT ![k] = <<>>]
        /\ finishedTaskInfos' = Tail(finishedTaskInfos)
  /\ UNCHANGED <<iteration, pc, target, inputRequests, readyTaskInfos,
                 invocation, fileInfo, jobs, lanes, ran, numErrors,
                 numFailedCommands, buildResult>>
  /\ UNCHANGED engineOnlyVars

\* A queue that loses the jobs that wait behind the one taken.
Dequeue_Drops(queue) == <<>>

\* The jobs that stay in the FIFO when a lane takes the first.
Dequeue(queue) == Tail(queue)

\* An idle lane takes the job at the head of the FIFO.
LaneTake(l) ==
  /\ pc = "running"
  /\ lanes[l].state = "idle"
  /\ jobs # <<>>
  /\ lanes' = [lanes EXCEPT ![l] = [state |-> "running", cmd |-> Head(jobs)]]
  /\ jobs' = Dequeue(jobs)
  /\ ran' = [ran EXCEPT ![Head(jobs)].takenCancelled = isCancelled]
  /\ UNCHANGED <<db, iteration, pc, target, ruleState, tasks, inputRequests,
                 finishedInputRequests, readyTaskInfos, finishedTaskInfos,
                 requestedBy, invocation, fileInfo, ruleResult, numErrors,
                 numFailedCommands, buildResult>>
  /\ UNCHANGED engineOnlyVars

\* The files after the external command of c has written its outputs.
Written(c) ==
  [n \in NodeNames |->
     IF /\ ~isVirtual(n)
        /\ \E i \in 1..Len(CommandTable[c].outputs) :
             CommandTable[c].outputs[i] = n
     THEN 1 ELSE fileInfo[n]]

\* The job of a command on a lane (the closure of inputsAvailable): the
\* external command is executed.  If it fails the task completes with
\* FailedCommand, and the failure is counted in a later step of the lane.
\* If it succeeds, with or without having written its outputs, the file
\* information of the outputs is captured and the task completes with
\* SuccessfulCommand.  The closure never looks at the cancellation flag.
LaneExecute(l) ==
  /\ pc = "running"
  /\ lanes[l].state = "running"
  /\ LET c == lanes[l].cmd
     IN /\ ran' = [ran EXCEPT ![c].executed = @ + 1]
        /\ \E outcome \in {"fail", "ok", "nooutput"} :
             CASE outcome = "fail" ->
                    /\ finishedTaskInfos' =
                         Append(finishedTaskInfos,
                                [key |-> c, value |-> makeFailedCommand])
                    /\ lanes' = [lanes EXCEPT ![l].state = "failed"]
                    /\ UNCHANGED fileInfo
               [] outcome = "ok" ->
                    /\ fileInfo' = Written(c)
                    /\ finishedTaskInfos' =
                         Append(finishedTaskInfos,
                                [key |-> c,
                                 value |-> SuccessValue(c, Written(c))])
                    /\ lanes' = [lanes EXCEPT ![l] = IdleLane]
               [] outcome = "nooutput" ->
                    /\ finishedTaskInfos' =
                         Append(finishedTaskInfos,
                                [key |-> c,
                                 value |-> SuccessValue(c, fileInfo)])
                    /\ lanes' = [lanes EXCEPT ![l] = IdleLane]
                    /\ UNCHANGED fileInfo
  /\ UNCHANGED <<db, iteration, pc, target, ruleState, tasks, inputRequests,
                 finishedInputRequests, readyTaskInfos, requestedBy,
                 invocation, jobs, ruleResult, numErrors, numFailedCommands,
                 buildResult>>
  /\ UNCHANGED engineOnlyVars

\* The lane of a failed command calls hadCommandFailure, after it has
\* reported the completion.
LaneReportFailure(l) ==
  /\ pc = "running"
  /\ lanes[l].state = "failed"
  /\ numFailedCommands' = hadCommandFailure(numFailedCommands)
  /\ lanes' = [lanes EXCEPT ![l] = IdleLane]
  /\ UNCHANGED <<db, iteration, pc, target, ruleState, tasks, inputRequests,
                 finishedInputRequests, readyTaskInfos, finishedTaskInfos,
                 requestedBy, invocation, fileInfo, jobs, ran, ruleResult,
                 numErrors, buildResult>>
  /\ UNCHANGED engineOnlyVars

\* The queue has drained: no job waits and no lane is at work.
QueueIdle ==
  /\ jobs = <<>>
  /\ \A l \in DOMAIN lanes : lanes[l].state = "idle"

\* The result of BuildSystemFrontend::build after the build system has
\* returned: false (and an error) if a command failed, else whether no
\* error was reported.
FrontendResult(errors, failures) ==
  IF failures # 0 THEN FALSE ELSE errors = 0

\* BuildSystemFrontend::build returns.  The engine has the value of the
\* target and the execution queue has been released, which waits for the
\* lanes to finish.
FrontendReturn ==
  /\ Phase = "idle"
  /\ ruleState[TargetName] = "IsComplete"
  /\ QueueIdle
  /\ buildResult' = IF FrontendResult(numErrors, numFailedCommands)
                    THEN "true" ELSE "false"
  /\ numErrors' = IF numFailedCommands # 0 THEN error(numErrors)
                  ELSE numErrors
  /\ pc' = "done"
  /\ UNCHANGED <<db, iteration, target, ruleState, tasks, inputRequests,
                 finishedInputRequests, readyTaskInfos, finishedTaskInfos,
                 requestedBy, invocation, fileInfo, jobs, lanes, ran,
                 ruleResult, numFailedCommands>>
  /\ UNCHANGED engineOnlyVars

\* One step of the engine thread.
EngineStep ==
  \/ FrontendFails
  \/ FrontendStarts
  \/ BuildProcessRequest
  \/ BuildProvideValue
  \/ BuildInputsAvailable
  \/ BuildTaskIsComplete
  \/ FrontendReturn

\* One step of lane l.
LaneStep(l) ==
  \/ LaneTake(l)
  \/ LaneExecute(l)
  \/ LaneReportFailure(l)

LaneIds == 1..(MaxCPUs + 2)

BuildNext ==
  \/ FrontendFails
  \/ FrontendStarts
  \/ BuildProcessRequest
  \/ BuildProvideValue
  \/ BuildInputsAvailable
  \/ BuildTaskIsComplete
  \/ FrontendReturn
  \/ \E l \in DOMAIN lanes : LaneTake(l)
  \/ \E l \in DOMAIN lanes : LaneExecute(l)
  \/ \E l \in DOMAIN lanes : LaneReportFailure(l)

\* The engine thread and every lane are threads of the operating system:
\* each keeps running while it has something to do.
BuildSpec ==
  /\ BuildInit
  /\ [][BuildNext]_vars
  /\ WF_vars(EngineStep)
  /\ \A l \in LaneIds : WF_vars(l \in DOMAIN lanes /\ LaneStep(l))

----------------------------------------------------------------------------
\* Claims about the build system.

\* The database holds, written in the current build, the record of key d
\* with the given value.
Persisted(d, value) ==
  /\ db[d].exists
  /\ db[d].value = value
  /\ db[d].checked = iteration

\* C12: persist before observe.  A value that is about to be handed to a
\* dependant with provideValue, or that a dependant has received, is the
\* value of a result record the engine has written for the current build;
\* this holds as well when the completion was reported from a lane of the
\* execution queue.
C12_PersistBeforeObserve ==
  /\ \A i \in 1..Len(finishedInputRequests) :
       Persisted(finishedInputRequests[i].key, finishedInputRequests[i].value)
  /\ \A k \in DOMAIN tasks :
       tasks[k].live =>
         \A i \in 1..Len(tasks[k].inputValues) :
           tasks[k].inputValues[i] # NoValue =>
             Persisted(tasks[k].declared[i], tasks[k].inputValues[i])

\* Node a has been handed the value that command c1 reported from a lane.
C12_Witness ==
  /\ pc = "running"
  /\ ran["c1"].executed = 1
  /\ tasks["a"].live
  /\ tasks["a"].inputValues[1].kind = "SuccessfulCommand"

\* How often the job of command c waits in the FIFO, and on how many lanes
\* it is being executed.
InQueue(c) == Cardinality({i \in 1..Len(jobs) : jobs[i] = c})

OnLane(c) ==
  Cardinality({l \in DOMAIN lanes :
                 lanes[l].state = "running" /\ lanes[l].cmd = c})

\* Every job that was added waits in the FIFO, is on one lane, or has been
\* executed, and none is executed twice.
JobsAccounted ==
  \A c \in CommandNames :
    /\ ran[c].submitted = InQueue(c) + OnLane(c) + ran[c].executed
    /\ ran[c].executed <= 1

\* The engine is about to call inputsAvailable on a command that will add
\* its job.
AboutToAddJob ==
  /\ Phase = "ready"
  /\ Head(readyTaskInfos) \in CommandNames
  /\ ~ExternalCommand_inputsAvailable(tasks[Head(readyTaskInfos)],
                                      isCancelled).complete

\* C15: execution queue, exactly once.  With one lane or several, in every
\* interleaving of the engine thread with the lanes, every job passed to
\* addJob is executed exactly once by one lane; addJob does not wait for
\* running jobs (the engine can take the step whatever the lanes do); and
\* under fair scheduling every submitted job is eventually executed and the
\* queue drains.
C15_ExactlyOnce ==
  /\ [](JobsAccounted /\ (AboutToAddJob => ENABLED BuildInputsAvailable))
  /\ \A c \in CommandNames : (ran[c].submitted = 1) ~> (ran[c].executed = 1)
  /\ (jobs # <<>>) ~> QueueIdle

\* The only lane is executing a job, while the engine is about to add the
\* job of another command.
C15_Witness ==
  /\ AboutToAddJob
  /\ Len(lanes) = 1
  /\ lanes[1].state = "running"
  /\ lanes[1].cmd # Head(readyTaskInfos)

\* The frontend has created the execution queue of the build.
QueueCreated == pc # "idle" /\ invocation.setup = "ok"

\* The values a configured maximum of the lane count could take.
ConfiguredMaxima == 1..(MaxCPUs + 2)

----------------------------------------------------------------------------
\* The validity check of a command against a stored value.

\* The largest file stamp.
MaxStamp == 2

FileInfos == 0..MaxStamp

\* The file information a successful run can have stored for the outputs
\* of command c: FileInfo{} for a virtual output, and for a file what was
\* found after the process ended (nothing, if it left no file).
StoredInfos(c) ==
  {infos \in [1..Len(CommandTable[c].outputs) -> FileInfos] :
     \A i \in 1..Len(CommandTable[c].outputs) :
       isVirtual(CommandTable[c].outputs[i]) => infos[i] = MissingFileInfo}

\* The values the database can hold for command c: a failed or skipped
\* run, or a successful one, stored when the command had its present inputs
\* and outputs or those of another command of the build description.
PriorValues(c) ==
  {makeFailedCommand, makeSkippedCommand} \cup
    {makeSuccessfulCommand(infos, getSignature(e)) :
       infos \in StoredInfos(c), e \in CommandNames}

\* The files as they can be when the check is made: only the file outputs
\* of the command matter.
CurrentFiles(c) ==
  {f \in [NodeNames -> FileInfos] :
     \A n \in NodeNames :
       (isVirtual(n) \/ Producers(n) # {c}) => f[n] = MissingFileInfo}

ValidInit ==
  /\ graph = "buildfile"
  /\ ext = <<>>
  /\ db = <<>>
  /\ iteration = 0
  /\ pc = "idle"
  /\ target = ""
  /\ ruleState = <<>>
  /\ scanStack = <<>>
  /\ tasks = <<>>
  /\ inputRequests = <<>>
  /\ finishedInputRequests = <<>>
  /\ readyTaskInfos = <<>>
  /\ finishedTaskInfos = <<>>
  /\ requestedBy = <<>>
  /\ log = <<>>
  /\ hist = <<>>
  /\ registered = {}
  /\ lookups = <<>>
  /\ invocation = <<>>
  /\ jobs = <<>>
  /\ lanes = <<>>
  /\ ran = <<>>
  /\ ruleResult = <<>>
  /\ numErrors = 0
  /\ numFailedCommands = 0
  /\ buildResult = "none"
  /\ command \in CommandNames
  /\ prior \in PriorValues(command)
  /\ fileInfo \in CurrentFiles(command)
  /\ valid = "none"
  /\ NoParser
  /\ NoLoader

\* ExternalCommand::isResultValid on the command.
isResultValid(c, value) ==
  isResultValidFor(CommandTable[c].inputs, CommandTable[c].outputs, value,
                   fileInfo)

\* The engine asks the command whether the stored value is still valid.
CheckValid ==
  /\ pc = "idle"
  /\ valid' = IF isResultValid(command, prior) THEN "true" ELSE "false"
  /\ pc' = "done"
  /\ UNCHANGED <<graph, ext, db, iteration, target, ruleState, scanStack,
                 tasks, inputRequests, finishedInputRequests, readyTaskInfos,
                 finishedTaskInfos, requestedBy, log, hist, registered,
                 lookups, invocation, fileInfo, jobs, lanes, ran, ruleResult,
                 numErrors, numFailedCommands, buildResult, command, prior,
                 parserVars, loaderVars>>

ValidNext == CheckValid

ValidSpec == ValidInit /\ [][ValidNext]_vars

\* The file outputs of the checked command, by index.
FileOutputs ==
  {i \in 1..Len(CommandTable[command].outputs) :
     ~isVirtual(CommandTable[command].outputs[i])}

\* The stored value is that of a successful run with the signature the
\* command has now and, for every file output, the file information that
\* file has now.
SameAsStored ==
  /\ prior.kind = "SuccessfulCommand"
  /\ prior.signature = getSignature(command)
  /\ \A i \in FileOutputs :
       prior.outputInfos[i] = fileInfo[CommandTable[command].outputs[i]]

\* C16 as stated: isResultValid returns true if and only if the value is a
\* SuccessfulCommand, the stored signature is the current one and every
\* non-virtual output has the stored file metadata.
C16_ValidityAsStated ==
  pc = "done" => (valid = "true" <=> SameAsStored)

\* C16: ExternalCommand validity.  isResultValid returns true if and only
\* if the value is a SuccessfulCommand, its stored signature equals the
\* command's current signature, and every non-virtual output node has a
\* file whose current metadata equals the metadata stored for that output;
\* virtual outputs are ignored, and an output whose file is missing makes
\* the result invalid even if no file was there when the value was stored.
C16_Validity ==
  pc = "done" =>
    (valid = "true" <=>
       /\ SameAsStored
       /\ \A i \in FileOutputs :
            ~isMissing(fileInfo[CommandTable[command].outputs[i]]))

\* A stored value that is found valid for a command with a file output and
\* a virtual one.
C16_Witness ==
  /\ pc = "done"
  /\ valid = "true"
  /\ command = "c4"

\* A successful run that left no output file is found invalid although
\* nothing has changed since.
C16_MissingWitness ==
  /\ pc = "done"
  /\ valid = "false"
  /\ SameAsStored

----------------------------------------------------------------------------
\* Claims about ExternalCommand in a build.

\* inputsAvailable has been called on the task of command c.
Called(c) ==
  \/ tasks[c].live /\ tasks[c].calls > 0
  \/ ruleState[c] = "IsComplete"

\* The values command c has completed with, reported or already processed
\* by the engine.
Reported(c) ==
  {finishedTaskInfos[i].value.kind :
     i \in {j \in 1..Len(finishedTaskInfos) : finishedTaskInfos[j].key = c}}
    \cup (IF ruleResult[c] = NoValue THEN {} ELSE {ruleResult[c].kind})

\* An input of c was delivered as missing or failed.
HasBadInput(c) ==
  \E i \in 1..Len(ran[c].inputs) :
    ran[c].inputs[i] \in {"MissingInput", "FailedInput"}

\* Every input of c was delivered as an existing file or a virtual node.
AllInputsGood(c) ==
  \A i \in 1..Len(ran[c].inputs) :
    ran[c].inputs[i] \in {"ExistingInput", "VirtualInput"}

\* The requests of c that the engine holds ask for input id+1 under id.
RequestsById(c) ==
  \A q \in {inputRequests, finishedInputRequests} \cup
             {requestedBy[d] : d \in BuildKeys} :
    \A i \in 1..Len(q) :
      q[i].by = c =>
        /\ q[i].id \in 0..(Len(CommandTable[c].inputs) - 1)
        /\ q[i].key = CommandTable[c].inputs[q[i].id + 1]

\* C17: ExternalCommand skip.  start requests every input, ids 0..n-1.  If
\* at least one delivered input value is MissingInput or FailedInput, no
\* job is submitted to the execution queue, the external process is never
\* run, and the command completes with SkippedCommand.  If all inputs are
\* ExistingInput or VirtualInput and the build is not cancelled when
\* inputsAvailable is called, exactly one job is submitted.
C17_Skip ==
  \A c \in CommandNames :
    /\ tasks[c].live =>
         /\ tasks[c].declared = CommandTable[c].inputs
         /\ Len(tasks[c].inputValues) = Len(CommandTable[c].inputs)
    /\ RequestsById(c)
    /\ HasBadInput(c) =>
         /\ ran[c].submitted = 0
         /\ ran[c].executed = 0
         /\ Reported(c) \subseteq {"SkippedCommand"}
         /\ Called(c) => Reported(c) = {"SkippedCommand"}
    /\ (Called(c) /\ AllInputsGood(c) /\ ~ran[c].readyCancelled) =>
         ran[c].submitted = 1
    /\ ran[c].submitted <= 1

\* Command c2 was skipped because the node of c1 it consumes had failed,
\* while the job of c4, whose input was there, was submitted.
C17_Witness ==
  /\ ran["c2"].inputs = <<"FailedInput", "VirtualInput">>
  /\ ruleState["c2"] = "IsComplete"
  /\ ruleResult["c2"].kind = "SkippedCommand"
  /\ ran["c2"].executed = 0
  /\ ran["c4"].inputs = <<"ExistingInput">>
  /\ ran["c4"].submitted = 1

\* The commands that list an output of command f among their inputs.
Consumers(f) ==
  {c \in CommandNames :
     \E i \in 1..Len(CommandTable[c].inputs) :
       f \in Producers(CommandTable[c].inputs[i])}

RECURSIVE ConsumerClosure(_)
ConsumerClosure(S) ==
  LET T == S \cup UNION {Consumers(c) : c \in S}
  IN IF T = S THEN S ELSE ConsumerClosure(T)

\* The commands that transitively consume an output of f.
Downstream(f) == ConsumerClosure(Consumers(f))

\* The nodes command f lists as outputs.
OutputsOf(f) ==
  {CommandTable[f].outputs[i] : i \in 1..Len(CommandTable[f].outputs)}

\* C18: failure propagation.  The per-output projection of a FailedCommand
\* or SkippedCommand value is FailedInput for every output node, and when a
\* command has failed no command that transitively consumes one of its
\* outputs runs its external process: each completes with SkippedCommand,
\* and has done so when the build returns.
C18_FailurePropagation ==
  /\ \A f \in CommandNames :
       \A n \in OutputsOf(f) :
         (/\ ruleResult[f].kind \in {"FailedCommand", "SkippedCommand"}
          /\ ruleResult[n] # NoValue)
           => ruleResult[n] = makeFailedInput
  /\ \A f \in CommandNames :
       "FailedCommand" \in Reported(f) =>
         \A c \in Downstream(f) :
           /\ ran[c].submitted = 0
           /\ ran[c].executed = 0
           /\ Reported(c) \subseteq {"SkippedCommand"}
           /\ pc = "done" => ruleResult[c] = makeSkippedCommand

\* The build has returned after c1 failed: c2 received FailedInput for node
\* a, c3 received FailedInput for node b, and both were skipped.
C18_Witness ==
  /\ pc = "done"
  /\ ruleResult["c1"] = makeFailedCommand
  /\ ruleResult["c4"].kind = "SuccessfulCommand"
  /\ ran["c2"].inputs[1] = "FailedInput"
  /\ ran["c3"].inputs[1] = "FailedInput"
  /\ ruleResult["c2"] = makeSkippedCommand
  /\ ruleResult["c3"] = makeSkippedCommand

\* C19: cooperative cancellation of queued work.  Once the delegate's
\* isCancelled flag is set, an ExternalCommand job that had been submitted
\* to the execution queue and is taken by a lane only afterwards observes
\* the flag and completes with SkippedCommand, not with SuccessfulCommand or
\* FailedCommand.
C19_CancelQueuedWork ==
  \A c \in CommandNames :
    ran[c].takenCancelled => Reported(c) \subseteq {"SkippedCommand"}

\* A job that waited in the FIFO while another command failed was executed
\* after the flag was set and reported a successful command.
C19_Divergence ==
  \E c \in CommandNames :
    /\ ran[c].takenCancelled
    /\ ran[c].executed = 1
    /\ ruleResult[c].kind = "SuccessfulCommand"

\* An error was reported to the delegate: by the frontend before the build,
\* by createExecutionQueue, or by a command for a missing input.
ErrorReported ==
  \/ invocation.setup # "ok"
  \/ ~invocation.useSerialBuild /\ invocation.numCPUs < 0
  \/ \E c \in CommandNames :
       \E i \in 1..Len(ran[c].inputs) : ran[c].inputs[i] = "MissingInput"

\* The external process of some command failed.
CommandFailed ==
  \E c \in CommandNames : "FailedCommand" \in Reported(c)

C20_SuccessWitness ==
  /\ pc = "done"
  /\ buildResult = "true"
  /\ \A c \in CommandNames : ruleResult[c].kind = "SuccessfulCommand"

----------------------------------------------------------------------------
\* The makefile-deps parser (lib/Core/MakefileDepsParser.cpp).

\* The longest buffer handed to the parser.
MaxLen == 5

\* The number of bytes that can be read after the byte at data + length.
MaxBeyond == 1

\* The bytes of a buffer: a word character, the escape character, the end of
\* a line, the start of a comment, the separator of a rule and a blank.
Alphabet == {"a", "\\", "\n", "#", ":", " "}

SeqsUpTo(S, n) == UNION {[1..m -> S] : m \in 0..n}

Buffers == SeqsUpTo(Alphabet, MaxLen)

\* What the memory after the buffer can hold: nothing that can be read, or
\* any bytes.
Tails == SeqsUpTo(Alphabet, MaxBeyond)

\* The state of every other component while the parser or the loader runs.
NoEngine ==
  /\ graph = ""
  /\ ext = <<>>
  /\ db = <<>>
  /\ iteration = 0
  /\ target = ""
  /\ ruleState = <<>>
  /\ scanStack = <<>>
  /\ tasks = <<>>
  /\ inputRequests = <<>>
  /\ finishedInputRequests = <<>>
  /\ readyTaskInfos = <<>>
  /\ finishedTaskInfos = <<>>
  /\ requestedBy = <<>>
  /\ hist = <<>>
  /\ registered = {}
  /\ lookups = <<>>

engineVars ==
  <<graph, ext, db, iteration, target, ruleState, scanStack, tasks,
    inputRequests, finishedInputRequests, readyTaskInfos, finishedTaskInfos,
    requestedBy, hist, registered, lookups>>

buildVars ==
  <<invocation, fileInfo, jobs, lanes, ran, ruleResult, numErrors,
    numFailedCommands, buildResult, command, prior, valid>>

\* `end`, as a cursor: cursors count from 1, cur - data is cur - 1.
End == Len(data) + 1

\* The cursor of a scan that read a byte that is not mapped.
Fault == 0

\* The bytes the parser can read: those of the buffer and, once the cursor
\* is past `end`, the b that follow the byte at `end`.
Readable(b, i) == i \in 1..Len(data) \/ (i > End /\ i - End <= Len(b))

Byte(b, i) == IF i <= Len(data) THEN data[i] ELSE b[i - End]

\* The NUL character.
Nul == "\\0"

isWordChar(c) ==
  c \notin {Nul, "\t", "\n", " ", "$", ":", ";", "=", "|", "%"}

\* The loop of skipWhitespaceAndComments that is meant to skip a comment:
\* it advances while the NEXT byte is a newline.
RECURSIVE skipComment(_, _)
skipComment(b, c) ==
  IF c + 1 = End THEN c
  ELSE IF ~Readable(b, c + 1) THEN Fault
  ELSE IF Byte(b, c + 1) = "\n" THEN skipComment(b, c + 1)
  ELSE c

RECURSIVE skipWhitespaceAndComments(_, _)
skipWhitespaceAndComments(b, c) ==
  IF c = End THEN c
  ELSE IF ~Readable(b, c) THEN Fault
  ELSE IF Byte(b, c) = "#"
  THEN LET n == skipComment(b, c)
       IN  IF n = Fault THEN Fault
           ELSE skipWhitespaceAndComments(b, n + 1)
  ELSE IF Byte(b, c) \in {" ", "\t", "\n"}
  THEN skipWhitespaceAndComments(b, c + 1)
  ELSE c

RECURSIVE skipNonNewlineWhitespace(_, _)
skipNonNewlineWhitespace(b, c) ==
  IF c = End THEN c
  ELSE IF ~Readable(b, c) THEN Fault
  ELSE IF Byte(b, c) \in {" ", "\t"}
  THEN skipNonNewlineWhitespace(b, c + 1)
  ELSE IF Byte(b, c) = "\\" /\ c + 1 # End
  THEN IF ~Readable(b, c + 1) THEN Fault
       ELSE IF Byte(b, c + 1) = "\n"
       THEN skipNonNewlineWhitespace(b, c + 2)
       ELSE c
  ELSE c

RECURSIVE skipToEndOfLine(_, _)
skipToEndOfLine(b, c) ==
  IF c = End THEN c
  ELSE IF ~Readable(b, c) THEN Fault
  ELSE IF Byte(b, c) = "\n" THEN c + 1
  ELSE skipToEndOfLine(b, c + 1)

\* lexWord: an escape that is not a line continuation skips the escaped
\* byte with ++cur and the loop adds its own ++cur, whether or not there is
\* an escaped byte before `end`.
RECURSIVE lexWord(_, _)
lexWord(b, c) ==
  IF c = End THEN c
  ELSE IF ~Readable(b, c) THEN Fault
  ELSE IF Byte(b, c) = "\\"
  THEN IF c + 1 # End /\ ~Readable(b, c + 1) THEN Fault
       ELSE IF c + 1 # End /\ Byte(b, c + 1) = "\n" THEN c
       ELSE lexWord(b, c + 2)
  ELSE IF ~isWordChar(Byte(b, c)) THEN c
  ELSE lexWord(b, c + 1)

\* The callbacks of ParseActions; at is cur - data or wordStart - data.
RuleStart(c, n) ==
  [ev |-> "ruleStart", at |-> c - 1, len |-> n, message |-> ""]

RuleDependency(c, n) ==
  [ev |-> "dependency", at |-> c - 1, len |-> n, message |-> ""]

RuleEnd == [ev |-> "ruleEnd", at |-> 0, len |-> 0, message |-> ""]

\* error(message, offset).
Error(message, c) ==
  [ev |-> "error", at |-> c - 1, len |-> 0, message |-> message]

InFile == "unexpected character in file"

MissingColon == "missing ':' following rule"

InPrerequisites == "unexpected character in prerequisites"

\* What one step of parse() does: where it goes on, the cursor and the
\* callbacks it made.  A read of unmapped memory ends the process.
Outcome(to, c, events) == [pc |-> to, cur |-> c, events |-> events]

Crashed(events) == Outcome("crashed", cur, events)

\* A rule that is left open when its ':' is missing.
missingColon_NoEnd(c) == <<Error(MissingColon, c)>>

\* Lines 136-137: the error, then the end of the rule.
missingColon(c) == <<Error(MissingColon, c), RuleEnd>>

\* Lines 115-131: the head of the outer loop up to actOnRuleStart.
ruleOutcome(b) ==
  LET wordStart == skipWhitespaceAndComments(b, cur)
  IN  IF wordStart = Fault THEN Crashed(<<>>)
      ELSE IF wordStart = End THEN Outcome("done", wordStart, <<>>)
      ELSE LET c == lexWord(b, wordStart)
           IN  IF c = Fault THEN Crashed(<<>>)
               ELSE IF c = wordStart
               THEN LET n == skipToEndOfLine(b, c)
                    IN  IF n = Fault THEN Crashed(<<Error(InFile, c)>>)
                        ELSE Outcome("rule", n, <<Error(InFile, c)>>)
               ELSE Outcome("colon", c, <<RuleStart(wordStart, c - wordStart)>>)

\* Lines 133-143: the colon after the target.
colonOutcome(b) ==
  LET c == skipNonNewlineWhitespace(b, cur)
  IN  IF c = Fault THEN Crashed(<<>>)
      ELSE IF c = End \/ Byte(b, c) # ":"
      THEN LET n == skipToEndOfLine(b, c)
           IN  IF n = Fault THEN Crashed(missingColon(c))
               ELSE Outcome("rule", n, missingColon(c))
      ELSE Outcome("dependencies", c + 1, <<>>)

\* Lines 146-162: one round of the inner loop, or its end.
dependencyOutcome(b) ==
  IF cur = End THEN Outcome("rule", cur, <<RuleEnd>>)
  ELSE
  LET wordStart == skipNonNewlineWhitespace(b, cur)
  IN  IF wordStart = Fault THEN Crashed(<<>>)
      ELSE IF wordStart = End \/ Byte(b, wordStart) = "\n"
      THEN Outcome("rule", wordStart, <<RuleEnd>>)
      ELSE LET c == lexWord(b, wordStart)
           IN  IF c = Fault THEN Crashed(<<>>)
               ELSE IF c = wordStart
               THEN LET n == skipToEndOfLine(b, c)
                    IN  IF n = Fault
                        THEN Crashed(<<Error(InPrerequisites, c)>>)
                        ELSE Outcome("dependencies", n,
                                     <<Error(InPrerequisites, c)>>)
               ELSE Outcome("dependencies", c,
                            <<RuleDependency(wordStart, c - wordStart)>>)

ParseInit ==
  /\ NoEngine
  /\ invocation = <<>>
  /\ fileInfo = <<>>
  /\ jobs = <<>>
  /\ lanes = <<>>
  /\ ran = <<>>
  /\ ruleResult = <<>>
  /\ numErrors = 0
  /\ numFailedCommands = 0
  /\ buildResult = "none"
  /\ command = ""
  /\ prior = <<>>
  /\ valid = "none"
  /\ NoLoader
  /\ data \in Buffers
  /\ beyond = <<>>
  /\ cur = 1
  /\ pc = "rule"
  /\ log = <<>>

\* The memory a step can find after the buffer: it is looked at when the
\* cursor leaves the buffer, and stays what it was found to be.
Memory(faults) ==
  IF cur <= End /\ beyond = <<>> /\ faults THEN Tails ELSE {beyond}

Step(o, b) ==
  /\ pc' = o.pc
  /\ cur' = o.cur
  /\ log' = log \o o.events
  /\ beyond' = b
  /\ UNCHANGED <<data, engineVars, buildVars, loaderVars>>

ParseRule ==
  /\ pc = "rule"
  /\ \E b \in Memory(ruleOutcome(<<>>).pc = "crashed") :
       Step(ruleOutcome(b), b)

ParseColon ==
  /\ pc = "colon"
  /\ \E b \in Memory(colonOutcome(<<>>).pc = "crashed") :
       Step(colonOutcome(b), b)

ParseDependency ==
  /\ pc = "dependencies"
  /\ \E b \in Memory(dependencyOutcome(<<>>).pc = "crashed") :
       Step(dependencyOutcome(b), b)

ParseNext ==
  \/ ParseRule
  \/ ParseColon
  \/ ParseDependency

ParseSpec ==
  ParseInit /\ [][ParseNext]_vars /\ WF_vars(ParseNext)

----------------------------------------------------------------------------
\* Properties of the makefile-deps parser.

\* The words and the errors among the first n callbacks.
Callbacks(ev, n) == {i \in 1..n : log[i].ev = ev}

\* The number of rules that are started and not ended after n callbacks.
OpenRules(n) ==
  Cardinality(Callbacks("ruleStart", n)) - Cardinality(Callbacks("ruleEnd", n))

Words == {i \in 1..Len(log) : log[i].ev \in {"ruleStart", "dependency"}}

\* The bytes of the word of callback i, as positions of the buffer.
Span(i) == (log[i].at + 1)..(log[i].at + log[i].len)

\* Position p of a word that starts at s follows an escaping backslash: a
\* backslash of the word that is not itself escaped.
RECURSIVE Escaped(_, _)
Escaped(s, p) == p > s /\ data[p - 1] = "\\" /\ ~Escaped(s, p - 1)

\* C22: every word reported is a non-empty span of the buffer, holds none of
\* the characters that end a word unless an escaping backslash precedes it,
\* and holds no line continuation (an unescaped backslash before a newline).
C22_Words ==
  \A i \in Words :
    /\ log[i].len >= 1
    /\ log[i].at + log[i].len <= Len(data)
    /\ \A p \in Span(i) :
         /\ ~isWordChar(data[p]) => Escaped(log[i].at + 1, p)
         /\ ~(/\ data[p] = "\\"
              /\ ~Escaped(log[i].at + 1, p)
              /\ p < Len(data)
              /\ data[p + 1] = "\n")

\* A word was reported that ends after the last byte of the buffer.
C22_Divergence ==
  \E i \in Words : log[i].at < Len(data) /\ log[i].at + log[i].len > Len(data)

\* The first position of the line of position p: lines end with a newline.
RECURSIVE LineStart(_)
LineStart(p) == IF p = 1 \/ data[p - 1] = "\n" THEN p ELSE LineStart(p - 1)

\* The last position of the line of position p before its newline.
RECURSIVE LineEnd(_)
LineEnd(p) ==
  IF p >= Len(data) \/ data[p + 1] = "\n" THEN p ELSE LineEnd(p + 1)

\* The positions after p on its line, its newline included.
RestOfLine(p) ==
  IF data[p] = "\n" THEN {} ELSE (p + 1)..(LineEnd(p) + 1)

\* The positions where a comment starts: a '#' with only blanks before it on
\* its line, on a line that does not continue the line before.
CommentStarts ==
  {p \in 1..Len(data) :
     /\ data[p] = "#"
     /\ \A q \in LineStart(p)..(p - 1) : data[q] \in {" ", "\t"}
     /\ LineStart(p) > 2 => data[LineStart(p) - 2] # "\\"}

\* C23: the bytes from the '#' of a comment up to the next newline produce
\* no callback: no word and no error is reported at one of them.
C23_Comments ==
  \A p \in CommentStarts :
    \A i \in 1..Len(log) :
      log[i].ev # "ruleEnd" => log[i].at + 1 \notin p..LineEnd(p)

\* parse() reported the text of a comment as the target of a rule.
C23_Divergence ==
  /\ pc = "done"
  /\ \E p \in CommentStarts :
       \E i \in 1..Len(log) :
         /\ log[i].ev = "ruleStart"
         /\ log[i].at + 1 \in (p + 1)..LineEnd(p)

\* The errors reported so far.
Errors == {i \in 1..Len(log) : log[i].ev = "error"}

\* Callback j belongs to the prerequisites of a rule.
OfPrerequisites(j) ==
  log[j].ev = "dependency" \/ log[j].message = InPrerequisites

\* C24: an error carries an offset of the buffer, no later callback comes
\* from the rest of its line, and the line after it starts a new rule: no
\* callback for the prerequisites of a rule follows the error unless a rule
\* was started after it.
C24_ErrorRecovery ==
  \A i \in Errors :
    /\ log[i].at \in 0..Len(data)
    /\ \A j \in (i + 1)..Len(log) :
         /\ (log[j].ev # "ruleEnd" /\ log[i].at < Len(data)) =>
              log[j].at + 1 \notin RestOfLine(log[i].at + 1)
         /\ OfPrerequisites(j) =>
              \E k \in (i + 1)..(j - 1) : log[k].ev = "ruleStart"

\* After an error among the prerequisites, a word of the next line was
\* reported as a dependency of the same rule.
C24_Divergence ==
  \E i \in Errors :
    /\ log[i].message = InPrerequisites
    /\ log[i].at < Len(data)
    /\ \E j \in (i + 1)..Len(log) :
         /\ log[j].ev = "dependency"
         /\ log[j].at > log[i].at
         /\ log[j].at + 1 \notin RestOfLine(log[i].at + 1)
         /\ \A k \in (i + 1)..(j - 1) : log[k].ev # "ruleStart"

\* C25: parse() terminates, its cursor never decreases and never moves past
\* data + length, and no byte outside the buffer is read.
C25_LinearConsumption ==
  /\ [](cur \in 1..End /\ pc # "crashed")
  /\ [][cur' >= cur]_vars
  /\ <>(pc = "done")

\* The cursor is past data + length and parse() goes on, or has read a byte
\* that is not mapped.
C25_Divergence == cur > End \/ pc = "crashed"

----------------------------------------------------------------------------
\* The build file loader (lib/BuildSystem/BuildFile.cpp, part_001).

\* The most sections a top-level mapping has where the order of the
\* sections is explored.
MaxSections == 3

\* The most entries of a section where the entries are explored.
MaxEntries == 2

\* The most attributes a command has after its tool.
MaxAttrs == 2

\* The nodes of a YAML document: a scalar has a value, a mapping has
\* key/value pairs as entries, a sequence has nodes as entries.
Scalar(v) == [type |-> "scalar", value |-> v, entries |-> <<>>]

Mapping(entries) == [type |-> "mapping", value |-> "", entries |-> entries]

Sequence(items) == [type |-> "sequence", value |-> "", entries |-> items]

KeyValue(k, v) == [key |-> k, value |-> v]

\* stringFromScalarNode.
stringFromScalarNode(node) == node.value

\* The delegate of the loader and the objects it hands out: the client
\* name it accepts, the tools it can create, and the attributes a tool, a
\* node or a command accepts (every other attribute is rejected with
\* ctx.error, as ExternalCommand::configureAttribute does).
ClientAccepted(name) == name = "basic"

KnownTools == {"shell"}

Accepts(key) == key = "args"

\* StringRef::getAsInteger(10, version) succeeds.
IsInteger(value) == value \in {"0", "1"}

\* A call the loader makes on the delegate, a tool or a command.
Call(c, name, args) == [call |-> c, name |-> name, args |-> args]

\* What the loader has done so far: BuildFileImpl::numErrors, the calls it
\* made, and the names in its tools and nodes maps.
Loaded(st, call) == [st EXCEPT !.calls = Append(@, call)]

\* An error that is reported and not counted.
BuildFileImpl_error_Uncounted(st, message) ==
  Loaded(st, Call("error", message, <<>>))

\* BuildFileImpl::error: delegate.error and ++numErrors.
BuildFileImpl_error(st, message) ==
  [Loaded(st, Call("error", message, <<>>)) EXCEPT !.errors = @ + 1]

\* ConfigureContext::error: delegate.error, past BuildFileImpl::numErrors.
ConfigureContext_error(st, message) ==
  Loaded(st, Call("error", message, <<>>))

\* A parse function's return: the state and the value returned.
Return(st, ok) == [st |-> st, ok |-> ok]

nodeIsScalarString(node, name) ==
  node.type = "scalar" /\ stringFromScalarNode(node) = name

\* getOrCreateTool: ok is false for a null tool.
getOrCreateTool(st, name) ==
  IF name \in st.tools THEN Return(st, TRUE)
  ELSE LET asked == Loaded(st, Call("lookupTool", name, <<>>))
       IN  IF name \notin KnownTools
           THEN Return(BuildFileImpl_error(asked,
                         "invalid tool type in 'tools' map"), FALSE)
           ELSE Return([asked EXCEPT !.tools = @ \cup {name}], TRUE)

getOrCreateNode(st, name) ==
  IF name \in st.nodes THEN st
  ELSE [Loaded(st, Call("lookupNode", name, <<>>))
          EXCEPT !.nodes = @ \cup {name}]

\* The loops over the items of a sequence: an item that is not a scalar is
\* an error and is left out.  st is the state, values the names collected.
RECURSIVE scalarItems(_, _, _, _, _)
scalarItems(st, items, i, values, createNodes) ==
  IF i > Len(items) THEN [st |-> st, values |-> values]
  ELSE IF items[i].type # "scalar"
  THEN scalarItems(BuildFileImpl_error(st, "invalid item type"), items,
                   i + 1, values, createNodes)
  ELSE LET name == stringFromScalarNode(items[i])
       IN  scalarItems(IF createNodes THEN getOrCreateNode(st, name) ELSE st,
                       items, i + 1, Append(values, name), createNodes)

\* configureAttribute of a tool, a node or a command: the object is asked,
\* and reports the attribute it rejects through the context.
configureAttribute(st, owner, key) ==
  LET asked == Loaded(st, Call("configureAttribute", owner, <<key>>))
  IN  IF Accepts(key) THEN Return(asked, TRUE)
      ELSE Return(ConfigureContext_error(asked, "unexpected attribute"),
                  FALSE)

\* The attribute of a tool, a node or a command that is not one of the
\* known keys of a command: a scalar key with a scalar or a sequence of
\* scalars.  ok is false when the object rejects it.
customAttribute(st, owner, key, value) ==
  IF key.type # "scalar"
  THEN Return(BuildFileImpl_error(st, "invalid key type"), TRUE)
  ELSE IF value.type = "sequence"
  THEN configureAttribute(scalarItems(st, value.entries, 1, <<>>, FALSE).st,
                          owner, stringFromScalarNode(key))
  ELSE IF value.type # "scalar"
  THEN Return(BuildFileImpl_error(st, "invalid value type"), TRUE)
  ELSE configureAttribute(st, owner, stringFromScalarNode(key))

\* The attribute loop of parseToolsMapping and of parseNodesMapping.
RECURSIVE configureAttributes(_, _, _, _)
configureAttributes(st, owner, attrs, i) ==
  IF i > Len(attrs) THEN Return(st, TRUE)
  ELSE LET r == customAttribute(st, owner, attrs[i].key, attrs[i].value)
       IN  IF r.ok THEN configureAttributes(r.st, owner, attrs, i + 1)
           ELSE r

\* The command objects are numbered as the tools create them: the one
\* being configured is the one created last.
Created(st) ==
  Cardinality({i \in 1..Len(st.calls) : st.calls[i].call = "createCommand"})

\* node->getProducers().push_back(command.get()) for every output named.
addProducers(st, names) ==
  [st EXCEPT !.producers =
     @ \o [i \in 1..Len(names) |->
             [node |-> names[i], command |-> Created(st)]]]

\* commands[name] = std::move(command): the command that had the name, if
\* any, is destroyed.
addCommand(st, name) ==
  [st EXCEPT !.commands =
     [n \in DOMAIN @ \cup {name} |->
        IF n = name THEN Created(st) ELSE @[n]]]

\* One remaining attribute of a command.
commandAttribute(st, name, key, value) ==
  IF nodeIsScalarString(key, "inputs")
  THEN IF value.type # "sequence"
       THEN Return(BuildFileImpl_error(st, "invalid value type for command key"),
                   TRUE)
       ELSE LET r == scalarItems(st, value.entries, 1, <<>>, TRUE)
            IN  Return(Loaded(r.st, Call("configureInputs", name, r.values)),
                       TRUE)
  ELSE IF nodeIsScalarString(key, "outputs")
  THEN IF value.type # "sequence"
       THEN Return(BuildFileImpl_error(st, "invalid value type for command key"),
                   TRUE)
       ELSE LET r == scalarItems(st, value.entries, 1, <<>>, TRUE)
            IN  Return(Loaded(addProducers(r.st, r.values),
                              Call("configureOutputs", name, r.values)),
                       TRUE)
  ELSE IF nodeIsScalarString(key, "description")
  THEN IF value.type # "scalar"
       THEN Return(BuildFileImpl_error(st,
                     "invalid value type for 'description' command key"), TRUE)
       ELSE Return(Loaded(st, Call("configureDescription", name,
                                   <<stringFromScalarNode(value)>>)), TRUE)
  ELSE customAttribute(st, name, key, value)

\* The loop over the remaining attributes of a command.
RECURSIVE commandAttributes(_, _, _, _)
commandAttributes(st, name, attrs, i) ==
  IF i > Len(attrs) THEN Return(st, TRUE)
  ELSE LET r == commandAttribute(st, name, attrs[i].key, attrs[i].value)
       IN  IF r.ok THEN commandAttributes(r.st, name, attrs, i + 1)
           ELSE r

\* parseClientMapping, from entry i on; name is the name read so far.
RECURSIVE parseClientMapping(_, _, _, _)
parseClientMapping(st, entries, i, name) ==
  IF i > Len(entries)
  THEN LET asked == Loaded(st, Call("configureClient", name, <<>>))
       IN  IF ClientAccepted(name) THEN Return(asked, TRUE)
           ELSE Return(BuildFileImpl_error(asked, "unable to configure client"),
                       FALSE)
  ELSE IF entries[i].key.type # "scalar"
  THEN Return(BuildFileImpl_error(st, "invalid key type in 'client' map"),
              FALSE)
  ELSE IF entries[i].value.type # "scalar"
  THEN Return(BuildFileImpl_error(st, "invalid value type in 'client' map"),
              FALSE)
  ELSE LET key == stringFromScalarNode(entries[i].key)
           value == stringFromScalarNode(entries[i].value)
       IN  IF key = "name"
           THEN parseClientMapping(st, entries, i + 1, value)
           ELSE IF key = "version" /\ ~IsInteger(value)
           THEN parseClientMapping(
                  BuildFileImpl_error(st,
                    "invalid version number in 'client' map"),
                  entries, i + 1, name)
           ELSE parseClientMapping(st, entries, i + 1, name)

\* parseToolsMapping, from entry i on.
RECURSIVE parseToolsMapping(_, _, _)
parseToolsMapping(st, entries, i) ==
  IF i > Len(entries) THEN Return(st, TRUE)
  ELSE IF entries[i].key.type # "scalar"
  THEN parseToolsMapping(
         BuildFileImpl_error(st, "invalid key type in 'tools' map"),
         entries, i + 1)
  ELSE IF entries[i].value.type # "mapping"
  THEN parseToolsMapping(
         BuildFileImpl_error(st, "invalid value type in 'tools' map"),
         entries, i + 1)
  ELSE LET name == stringFromScalarNode(entries[i].key)
           tool == getOrCreateTool(st, name)
       IN  IF ~tool.ok THEN Return(tool.st, FALSE)
           ELSE LET r == configureAttributes(tool.st, name,
                                             entries[i].value.entries, 1)
                IN  IF r.ok THEN parseToolsMapping(r.st, entries, i + 1)
                    ELSE r

\* parseTargetsMapping, from entry i on.
RECURSIVE parseTargetsMapping(_, _, _)
parseTargetsMapping(st, entries, i) ==
  IF i > Len(entries) THEN Return(st, TRUE)
  ELSE IF entries[i].key.type # "scalar"
  THEN parseTargetsMapping(
         BuildFileImpl_error(st, "invalid key type in 'targets' map"),
         entries, i + 1)
  ELSE IF entries[i].value.type # "sequence"
  THEN parseTargetsMapping(
         BuildFileImpl_error(st, "invalid value type in 'targets' map"),
         entries, i + 1)
  ELSE LET name == stringFromScalarNode(entries[i].key)
           r == scalarItems(st, entries[i].value.entries, 1, <<>>, TRUE)
       IN  parseTargetsMapping(
             Loaded(r.st, Call("loadedTarget", name, r.values)),
             entries, i + 1)

\* parseNodesMapping, from entry i on.
RECURSIVE parseNodesMapping(_, _, _)
parseNodesMapping(st, entries, i) ==
  IF i > Len(entries) THEN Return(st, TRUE)
  ELSE IF entries[i].key.type # "scalar"
  THEN parseNodesMapping(
         BuildFileImpl_error(st, "invalid key type in 'nodes' map"),
         entries, i + 1)
  ELSE IF entries[i].value.type # "mapping"
  THEN parseNodesMapping(
         BuildFileImpl_error(st, "invalid value type in 'nodes' map"),
         entries, i + 1)
  ELSE LET name == stringFromScalarNode(entries[i].key)
           r == configureAttributes(getOrCreateNode(st, name), name,
                                    entries[i].value.entries, 1)
       IN  IF r.ok THEN parseNodesMapping(r.st, entries, i + 1)
           ELSE r

\* A check of the first attribute that does not look at its value.
firstAttribute_KeyOnly(attrs) ==
  IF attrs = <<>> THEN "missing 'tool' key for command in 'command' map"
  ELSE IF ~nodeIsScalarString(attrs[1].key, "tool")
  THEN "expected 'tool' initial key for command in 'commands' map"
  ELSE ""

\* Lines 549-568: what is wrong with the first attribute of a command, ""
\* if nothing is.
firstAttribute(attrs) ==
  IF attrs = <<>> THEN "missing 'tool' key for command in 'command' map"
  ELSE IF ~nodeIsScalarString(attrs[1].key, "tool")
  THEN "expected 'tool' initial key for command in 'commands' map"
  ELSE IF attrs[1].value.type # "scalar"
  THEN "invalid 'tool' value type for command in 'commands' map"
  ELSE ""

\* parseCommandsMapping, from entry i on.
RECURSIVE parseCommandsMapping(_, _, _)
parseCommandsMapping(st, entries, i) ==
  IF i > Len(entries) THEN Return(st, TRUE)
  ELSE IF entries[i].key.type # "scalar"
  THEN parseCommandsMapping(
         BuildFileImpl_error(st, "invalid key type in 'commands' map"),
         entries, i + 1)
  ELSE IF entries[i].value.type # "mapping"
  THEN parseCommandsMapping(
         BuildFileImpl_error(st, "invalid value type in 'commands' map"),
         entries, i + 1)
  ELSE LET name == stringFromScalarNode(entries[i].key)
           attrs == entries[i].value.entries
       IN  IF firstAttribute(attrs) # ""
           THEN parseCommandsMapping(
                  BuildFileImpl_error(st, firstAttribute(attrs)),
                  entries, i + 1)
           ELSE LET tool == getOrCreateTool(
                              st, stringFromScalarNode(attrs[1].value))
                IN  IF ~tool.ok THEN Return(tool.st, FALSE)
                    ELSE LET r == commandAttributes(
                                    Loaded(tool.st,
                                           Call("createCommand", name, <<>>)),
                                    name, attrs, 2)
                         IN  IF ~r.ok THEN r
                             ELSE parseCommandsMapping(
                                    addCommand(
                                      Loaded(r.st,
                                        Call("loadedCommand", name, <<>>)),
                                      name),
                                    entries, i + 1)

\* The build descriptions handed to the loader.

\* The sections of a description as they are usually written.
Section(k) ==
  KeyValue(Scalar(k),
    CASE k = "client" ->
           Mapping(<<KeyValue(Scalar("name"), Scalar("basic")),
                     KeyValue(Scalar("version"), Scalar("0"))>>)
      [] k = "tools" -> Mapping(<<KeyValue(Scalar("shell"), Mapping(<<>>))>>)
      [] k = "targets" ->
           Mapping(<<KeyValue(Scalar("all"), Sequence(<<Scalar("a")>>))>>)
      [] k = "nodes" -> Mapping(<<KeyValue(Scalar("a"), Mapping(<<>>))>>)
      [] k = "commands" ->
           Mapping(<<KeyValue(Scalar("link"),
                       Mapping(<<KeyValue(Scalar("tool"), Scalar("shell")),
                                 KeyValue(Scalar("outputs"),
                                          Sequence(<<Scalar("a")>>))>>))>>)
      [] OTHER -> Mapping(<<>>))

SectionKeys == {"client", "tools", "targets", "nodes", "commands", "extra"}

\* A file that holds one document whose root is the node.
File(root) == [readable |-> TRUE, roots |-> <<root>>]

\* A file whose root is a mapping that starts with a usual client section.
Description(sections) == File(Mapping(<<Section("client")>> \o sections))

\* Every order of up to MaxSections usual sections, and the full order.
OrderDocuments ==
  {File(Mapping([i \in 1..Len(ks) |-> Section(ks[i])])) :
     ks \in SeqsUpTo(SectionKeys, MaxSections)}
  \cup {Description(<<Section("tools"), Section("targets"), Section("nodes"),
                      Section("commands")>>)}

\* Files that cannot be read, hold no or two documents, or whose root or
\* sections are not of the expected kind.
OddDocuments ==
  {[readable |-> FALSE, roots |-> <<>>],
   [readable |-> TRUE, roots |-> <<>>],
   [readable |-> TRUE,
    roots |-> <<Mapping(<<Section("client")>>), Mapping(<<>>)>>],
   File(Scalar("client")),
   File(Mapping(<<KeyValue(Mapping(<<>>), Mapping(<<>>))>>)),
   File(Mapping(<<KeyValue(Scalar("client"), Scalar("basic"))>>))}
  \cup {Description(<<KeyValue(Scalar(k), Scalar("x"))>>) :
          k \in SectionKeys \ {"client", "extra"}}

ClientDocuments ==
  {File(Mapping(<<KeyValue(Scalar("client"), Mapping(entries))>>)) :
     entries \in
       {<<>>,
        <<KeyValue(Scalar("name"), Scalar("other"))>>,
        <<KeyValue(Scalar("name"), Scalar("basic")),
          KeyValue(Scalar("version"), Scalar("x"))>>,
        <<KeyValue(Scalar("version"), Scalar("x")),
          KeyValue(Scalar("name"), Scalar("other"))>>,
        <<KeyValue(Scalar("name"), Scalar("basic")),
          KeyValue(Scalar("flavour"), Scalar("x"))>>,
        <<KeyValue(Mapping(<<>>), Scalar("basic"))>>,
        <<KeyValue(Scalar("name"), Sequence(<<>>))>>}}

\* The names of the entries of a section, by position.
TargetNameAt == <<"t1", "t2", "t3", "t4">>

CommandNameAt == <<"cmd1", "cmd2", "cmd3", "cmd4">>

TargetShapes == {"good", "badkey", "badvalue", "baditem"}

TargetEntry(name, shape) ==
  CASE shape = "good" ->
         KeyValue(Scalar(name), Sequence(<<Scalar("a"), Scalar("b")>>))
    [] shape = "badkey" -> KeyValue(Sequence(<<>>), Sequence(<<Scalar("a")>>))
    [] shape = "badvalue" -> KeyValue(Scalar(name), Scalar("a"))
    [] shape = "baditem" ->
         KeyValue(Scalar(name), Sequence(<<Mapping(<<>>), Scalar("a")>>))

TargetDocuments ==
  {Description(<<KeyValue(Scalar("targets"),
       Mapping([i \in 1..Len(shapes) |->
                  TargetEntry(TargetNameAt[i], shapes[i])]))>>) :
     shapes \in SeqsUpTo(TargetShapes, MaxEntries)}

\* The attributes of a tool or a node: accepted, rejected, with a sequence
\* that holds a mapping, with a key or a value of the wrong kind.
AttributeShapes == {"args", "bogus", "list", "badkey", "badvalue"}

Attribute(shape) ==
  CASE shape = "args" -> KeyValue(Scalar("args"), Scalar("x"))
    [] shape = "bogus" -> KeyValue(Scalar("bogus"), Scalar("x"))
    [] shape = "list" ->
         KeyValue(Scalar("args"), Sequence(<<Scalar("x"), Mapping(<<>>)>>))
    [] shape = "badkey" -> KeyValue(Sequence(<<>>), Scalar("x"))
    [] shape = "badvalue" -> KeyValue(Scalar("args"), Mapping(<<>>))

ToolEntries ==
  {KeyValue(Scalar("shell"), Mapping(<<>>)),
   KeyValue(Scalar("nope"), Mapping(<<>>)),
   KeyValue(Mapping(<<>>), Mapping(<<>>)),
   KeyValue(Scalar("shell"), Scalar("x"))}
  \cup {KeyValue(Scalar("shell"), Mapping(<<Attribute(a)>>)) :
          a \in AttributeShapes}

ToolDocuments ==
  {Description(<<KeyValue(Scalar("tools"), Mapping(entries))>>) :
     entries \in SeqsUpTo(ToolEntries, MaxEntries)}

NodeEntries ==
  {KeyValue(Scalar("a"), Mapping(<<>>)),
   KeyValue(Scalar("b"), Mapping(<<Attribute("args")>>)),
   KeyValue(Scalar("b"), Mapping(<<Attribute("bogus")>>)),
   KeyValue(Mapping(<<>>), Mapping(<<>>)),
   KeyValue(Scalar("a"), Scalar("x"))}

NodeDocuments ==
  {Description(<<KeyValue(Scalar("nodes"), Mapping(entries))>>) :
     entries \in SeqsUpTo(NodeEntries, MaxEntries)}

\* The attributes a command can have after its tool.
CommandAttributeShapes ==
  {"inputs", "outputs", "description", "badinputs", "baddescription"}
  \cup {"args", "bogus", "badkey"}

CommandAttribute(shape) ==
  CASE shape = "inputs" ->
         KeyValue(Scalar("inputs"), Sequence(<<Scalar("a"), Mapping(<<>>)>>))
    [] shape = "outputs" -> KeyValue(Scalar("outputs"), Sequence(<<Scalar("b")>>))
    [] shape = "description" -> KeyValue(Scalar("description"), Scalar("x"))
    [] shape = "badinputs" -> KeyValue(Scalar("inputs"), Scalar("a"))
    [] shape = "baddescription" ->
         KeyValue(Scalar("description"), Sequence(<<>>))
    [] OTHER -> Attribute(shape)

\* The entries of the commands section: a command of the shell tool with up
\* to MaxAttrs further attributes, and the entries that are in error.
CommandShapes ==
  {<<"tool">> \o attrs : attrs \in SeqsUpTo(CommandAttributeShapes, MaxAttrs)}
  \cup {<<"badkey">>, <<"badvalue">>, <<"empty">>, <<"notool">>,
        <<"toollist">>, <<"unknown">>}

CommandEntry(name, shape) ==
  CASE shape[1] = "tool" ->
         KeyValue(Scalar(name),
           Mapping(<<KeyValue(Scalar("tool"), Scalar("shell"))>> \o
                   [i \in 1..(Len(shape) - 1) |->
                      CommandAttribute(shape[i + 1])]))
    [] shape[1] = "badkey" -> KeyValue(Mapping(<<>>), Mapping(<<>>))
    [] shape[1] = "badvalue" -> KeyValue(Scalar(name), Scalar("shell"))
    [] shape[1] = "empty" -> KeyValue(Scalar(name), Mapping(<<>>))
    [] shape[1] = "notool" ->
         KeyValue(Scalar(name),
           Mapping(<<CommandAttribute("outputs"),
                     KeyValue(Scalar("tool"), Scalar("shell"))>>))
    [] shape[1] = "toollist" ->
         KeyValue(Scalar(name),
           Mapping(<<KeyValue(Scalar("tool"), Sequence(<<Scalar("shell")>>)),
                     CommandAttribute("outputs")>>))
    [] shape[1] = "unknown" ->
         KeyValue(Scalar(name),
           Mapping(<<KeyValue(Scalar("tool"), Scalar("nope")),
                     CommandAttribute("outputs")>>))

\* The commands sections: one entry of any shape, among up to
\* MaxEntries - 1 entries that are a plain command or lack the tool.
PlainShapes == {<<"tool">>, <<"notool">>}

\* The plain entries before and after the entry of any shape.
Contexts ==
  {c \in SeqsUpTo(PlainShapes, MaxEntries - 1)
          \X SeqsUpTo(PlainShapes, MaxEntries - 1) :
     Len(c[1]) + Len(c[2]) < MaxEntries}

CommandSections ==
  {[i \in 1..(Len(c[1]) + 1 + Len(c[2])) |->
      CommandEntry(CommandNameAt[i],
        IF i <= Len(c[1]) THEN c[1][i]
        ELSE IF i = Len(c[1]) + 1 THEN shape
        ELSE c[2][i - Len(c[1]) - 1])] :
     shape \in CommandShapes, c \in Contexts}

\* The commands sections in which two entries have the same name.
DuplicateSections ==
  {<<CommandEntry(CommandNameAt[1], first),
     CommandEntry(CommandNameAt[1], second)>> :
     first \in {<<"tool", "outputs">>},
     second \in {<<"tool">>, <<"tool", "outputs">>, <<"notool">>}}

CommandDocuments ==
  {Description(<<KeyValue(Scalar("commands"), Mapping(entries))>>) :
     entries \in CommandSections \cup {<<>>}}

\* The descriptions with a commands section, two names alike or not.
ProducerDocuments ==
  CommandDocuments \cup
    {Description(<<KeyValue(Scalar("commands"), Mapping(entries))>>) :
       entries \in DuplicateSections}

Documents ==
  OrderDocuments \cup OddDocuments \cup ClientDocuments \cup TargetDocuments
    \cup ToolDocuments \cup NodeDocuments \cup CommandDocuments

LoadFrom(documents) ==
  /\ NoEngine
  /\ invocation = <<>>
  /\ fileInfo = <<>>
  /\ jobs = <<>>
  /\ lanes = <<>>
  /\ ran = <<>>
  /\ ruleResult = <<>>
  /\ numErrors = 0
  /\ numFailedCommands = 0
  /\ buildResult = "none"
  /\ command = ""
  /\ prior = <<>>
  /\ valid = "none"
  /\ NoParser
  /\ document \in documents
  /\ it = 0
  /\ tools = {}
  /\ nodes = {}
  /\ commands = <<>>
  /\ producers = <<>>
  /\ fileErrors = 0
  /\ loadResult = "none"
  /\ pc = "load"
  /\ log = <<>>

LoadInit == LoadFrom(Documents)

ProducerInit == LoadFrom(ProducerDocuments)

\* The state of the BuildFileImpl.
Impl ==
  [errors |-> fileErrors, calls |-> log, tools |-> tools, nodes |-> nodes,
   commands |-> commands, producers |-> producers]

\* The root of the document and the entries of the top-level mapping.
Root == document.roots[1]

Sections == Root.entries

\* The loader goes on at position `to` with `it` at entry i.
GoOn(st, to, i) ==
  /\ fileErrors' = st.errors
  /\ log' = st.calls
  /\ tools' = st.tools
  /\ nodes' = st.nodes
  /\ commands' = st.commands
  /\ producers' = st.producers
  /\ it' = i
  /\ pc' = to
  /\ UNCHANGED <<loadResult, document, engineVars, buildVars, parserVars>>

\* load() returns the value.
Returns(st, value) ==
  /\ fileErrors' = st.errors
  /\ log' = st.calls
  /\ tools' = st.tools
  /\ nodes' = st.nodes
  /\ commands' = st.commands
  /\ producers' = st.producers
  /\ loadResult' = IF value THEN "true" ELSE "false"
  /\ pc' = "returned"
  /\ UNCHANGED <<it, document, engineVars, buildVars, parserVars>>

\* load(), lines 720-746: the file is opened and its first document taken.
Load ==
  /\ pc = "load"
  /\ IF ~document.readable
     THEN Returns(BuildFileImpl_error(Impl, "unable to open"), FALSE)
     ELSE IF document.roots = <<>>
     THEN Returns(BuildFileImpl_error(Impl, "missing document in stream"),
                  FALSE)
     ELSE GoOn(Impl, "client", 0)

\* parseRootNode, lines 200-224.  mapping->begin() of a mapping without
\* entries is its end(): it->getKey() is then undefined, the process stops
\* or finds something that is not the key 'client'.
ParseClient ==
  /\ pc = "client"
  /\ IF Root.type # "mapping"
     THEN Returns(BuildFileImpl_error(Impl, "unexpected top-level node"),
                  FALSE)
     ELSE IF Sections = <<>>
     THEN \/ /\ pc' = "crashed"
             /\ UNCHANGED <<it, fileErrors, log, tools, nodes, commands,
                            producers, loadResult,
                            document, engineVars, buildVars, parserVars>>
          \/ Returns(BuildFileImpl_error(Impl,
                       "expected initial mapping key 'client'"), FALSE)
     ELSE IF ~nodeIsScalarString(Sections[1].key, "client")
     THEN Returns(BuildFileImpl_error(Impl,
                    "expected initial mapping key 'client'"), FALSE)
     ELSE IF Sections[1].value.type # "mapping"
     THEN Returns(BuildFileImpl_error(Impl,
                    "unexpected 'client' value (expected map)"), FALSE)
     ELSE LET r == parseClientMapping(Impl, Sections[1].value.entries, 1, "")
          IN  IF r.ok THEN GoOn(r.st, "tools", 2) ELSE Returns(r.st, FALSE)

\* The section at `it`, if it has the key: r is what parsing its entries
\* gives.
AtSection(key) ==
  it <= Len(Sections) /\ nodeIsScalarString(Sections[it].key, key)

ParseSection(r, to) ==
  IF Sections[it].value.type # "mapping"
  THEN Returns(BuildFileImpl_error(Impl, "unexpected value (expected map)"),
               FALSE)
  ELSE IF r.ok THEN GoOn(r.st, to, it + 1)
  ELSE Returns(r.st, FALSE)

\* parseRootNode, lines 226-238.
ParseTools ==
  /\ pc = "tools"
  /\ IF AtSection("tools")
     THEN ParseSection(parseToolsMapping(Impl, Sections[it].value.entries, 1),
                       "targets")
     ELSE GoOn(Impl, "targets", it)

\* parseRootNode, lines 240-252.
ParseTargets ==
  /\ pc = "targets"
  /\ IF AtSection("targets")
     THEN ParseSection(
            parseTargetsMapping(Impl, Sections[it].value.entries, 1), "nodes")
     ELSE GoOn(Impl, "nodes", it)

\* parseRootNode, lines 254-266.
ParseNodes ==
  /\ pc = "nodes"
  /\ IF AtSection("nodes")
     THEN ParseSection(parseNodesMapping(Impl, Sections[it].value.entries, 1),
                       "commands")
     ELSE GoOn(Impl, "commands", it)

\* parseRootNode, lines 268-280.
ParseCommands ==
  /\ pc = "commands"
  /\ IF AtSection("commands")
     THEN ParseSection(
            parseCommandsMapping(Impl, Sections[it].value.entries, 1),
            "trailing")
     ELSE GoOn(Impl, "trailing", it)

\* A load that succeeds whatever was reported.
loadReturn_True(errors) == TRUE

\* load(), line 755.
loadReturn(errors) == errors = 0

\* parseRootNode, lines 282-288, and load(), lines 750-755.
Finish ==
  /\ pc = "trailing"
  /\ IF it <= Len(Sections)
     THEN Returns(BuildFileImpl_error(Impl,
                    "unexpected trailing top-level section"), FALSE)
     ELSE IF Len(document.roots) > 1
     THEN Returns(BuildFileImpl_error(Impl,
                    "unexpected additional document in stream"), FALSE)
     ELSE Returns(Impl, loadReturn(fileErrors))

LoadNext ==
  \/ Load
  \/ ParseClient
  \/ ParseTools
  \/ ParseTargets
  \/ ParseNodes
  \/ ParseCommands
  \/ Finish

LoadSpec == LoadInit /\ [][LoadNext]_vars

----------------------------------------------------------------------------
\* Properties of the build file loader.

\* The file holds a document whose root is a mapping.
HasRoot ==
  document.readable /\ document.roots # <<>> /\ Root.type = "mapping"

\* The key of section i of the top-level mapping, "" if it is no scalar.
TopKey(i) ==
  IF Sections[i].key.type = "scalar" THEN Sections[i].key.value ELSE ""

\* The place of a section after `client`, 0 for any other key.
Rank(k) ==
  CASE k = "tools" -> 1
    [] k = "targets" -> 2
    [] k = "nodes" -> 3
    [] k = "commands" -> 4
    [] OTHER -> 0

\* The first n keys are `client`, then some of tools, targets, nodes,
\* commands in that order.
InOrder(n) ==
  /\ n >= 1
  /\ TopKey(1) = "client"
  /\ \A i \in 2..n :
       /\ Rank(TopKey(i)) > 0
       /\ \A j \in 2..(i - 1) : Rank(TopKey(j)) < Rank(TopKey(i))

\* The errors reported to the delegate so far.
ErrorCalls == {i \in 1..Len(log) : log[i].call = "error"}

\* load() is over.
LoadOver == pc \in {"returned", "crashed"}

\* C26: load() succeeds only on `client` followed by sections in the fixed
\* order; on any other top-level mapping, one without `client` included, an
\* error is reported and load() returns false.
C26_SectionOrder ==
  /\ loadResult = "true" => (HasRoot /\ InOrder(Len(Sections)))
  /\ (LoadOver /\ HasRoot /\ ~InOrder(Len(Sections))) =>
       (pc = "returned" /\ loadResult = "false" /\ ErrorCalls # {})

\* The top-level mapping has no entry, and the process stopped in
\* parseRootNode without an error and without a return of load().
C26_Divergence ==
  /\ HasRoot
  /\ Sections = <<>>
  /\ pc = "crashed"
  /\ ErrorCalls = {}
  /\ loadResult = "none"

\* Section s was parsed by the function of its key and that function
\* returned true.
Parsed(s, key) ==
  /\ HasRoot
  /\ s \in 2..Len(Sections)
  /\ s < it
  /\ TopKey(s) = key
  /\ Sections[s].value.type = "mapping"

\* The first attribute of a command is the key `tool` with a scalar value.
ValidFirst(attrs) ==
  /\ attrs # <<>>
  /\ attrs[1].key.type = "scalar"
  /\ attrs[1].key.value = "tool"
  /\ attrs[1].value.type = "scalar"

\* The calls of the kind made for the name.
CallsFor(c, name) ==
  {i \in 1..Len(log) : log[i].call = c /\ log[i].name = name}

\* An entry without the error in the kind of its key or value that the
\* loader recovers from, and the call that announces it to the delegate.
WellFormed(key, e) ==
  /\ e.key.type = "scalar"
  /\ e.value.type = (IF key = "targets" THEN "sequence" ELSE "mapping")
  /\ key = "commands" => ValidFirst(e.value.entries)

Announced(key, e) ==
  CASE key = "targets" -> CallsFor("loadedTarget", e.key.value) # {}
    [] key = "commands" -> CallsFor("loadedCommand", e.key.value) # {}
    [] key = "tools" -> e.key.value \in tools
    [] key = "nodes" -> e.key.value \in nodes

CommandsAt(s) ==
  /\ HasRoot
  /\ pc \in {"trailing", "returned"}
  /\ s \in 2..Len(Sections)
  /\ s <= it
  /\ InOrder(s)
  /\ TopKey(s) = "commands"
  /\ Sections[s].value.type = "mapping"

\* What the loader is to do with a remaining attribute of a command: the
\* call it makes, "" for an attribute whose key or value is of the wrong
\* kind.
Application(a) ==
  IF nodeIsScalarString(a.key, "inputs")
  THEN IF a.value.type = "sequence" THEN "configureInputs" ELSE ""
  ELSE IF nodeIsScalarString(a.key, "outputs")
  THEN IF a.value.type = "sequence" THEN "configureOutputs" ELSE ""
  ELSE IF nodeIsScalarString(a.key, "description")
  THEN IF a.value.type = "scalar" THEN "configureDescription" ELSE ""
  ELSE IF a.key.type = "scalar" /\ a.value.type \in {"scalar", "sequence"}
  THEN "configureAttribute"
  ELSE ""

\* The command rejects attribute a.
Rejected(a) == Application(a) = "configureAttribute" /\ ~Accepts(a.key.value)

\* The calls to make for attributes i.. of attrs, in document order; with
\* stop, up to the first attribute the command rejects.
RECURSIVE Applications(_, _, _)
Applications(attrs, i, stop) ==
  IF i > Len(attrs) THEN <<>>
  ELSE IF Application(attrs[i]) = "" THEN Applications(attrs, i + 1, stop)
  ELSE IF stop /\ Rejected(attrs[i]) THEN <<Application(attrs[i])>>
  ELSE <<Application(attrs[i])>> \o Applications(attrs, i + 1, stop)

\* The calls made on the command of the name, in the order made.
RECURSIVE Applied(_, _)
Applied(name, i) ==
  IF i > Len(log) THEN <<>>
  ELSE IF log[i].name = name /\ log[i].call \notin {"createCommand",
                                                     "loadedCommand"}
  THEN <<log[i].call>> \o Applied(name, i + 1)
  ELSE Applied(name, i + 1)

\* The entry has a scalar key and a mapping as its value.
IsCommand(e) == e.key.type = "scalar" /\ e.value.type = "mapping"

\* The entry ends the load: its tool is unknown or it rejects an attribute.
UnknownTool(e) ==
  /\ IsCommand(e)
  /\ ValidFirst(e.value.entries)
  /\ e.value.entries[1].value.value \notin KnownTools

Fatal(e) ==
  /\ IsCommand(e)
  /\ ValidFirst(e.value.entries)
  /\ \/ UnknownTool(e)
     \/ \E i \in 2..Len(e.value.entries) : Rejected(e.value.entries[i])

\* The entries of the section the loader got to: those with no entry before
\* them that ends the load.
Processed(entries) ==
  {i \in 1..Len(entries) : \A j \in 1..(i - 1) : ~Fatal(entries[j])}

\* For the commands of a section: no call for an entry whose first
\* attribute is wrong.
NoCommandFor(e) ==
  /\ CallsFor("createCommand", e.key.value) = {}
  /\ CallsFor("loadedCommand", e.key.value) = {}
  /\ Applied(e.key.value, 1) = <<>>

\* C28 as stated: for every entry of the commands section, a first
\* attribute that is not `tool` with a scalar value is an error, no command
\* is created or announced for the entry and the next entry is processed;
\* with a valid first attribute createCommand is called once and the
\* remaining attributes are applied in document order.
C28_CommandsAsStated ==
  \A s \in 2..it :
    CommandsAt(s) =>
      LET entries == Sections[s].value.entries
      IN  \A i \in 1..Len(entries) :
            IsCommand(entries[i]) =>
              IF ~ValidFirst(entries[i].value.entries)
              THEN NoCommandFor(entries[i]) /\ ErrorCalls # {}
              ELSE /\ Cardinality(CallsFor("createCommand",
                                           entries[i].key.value)) = 1
                   /\ Applied(entries[i].key.value, 1) =
                        Applications(entries[i].value.entries, 2, FALSE)

\* C28: as above for the entries the loader gets to; with a valid first
\* attribute createCommand is called once if the delegate has the tool, and
\* the remaining attributes are applied in document order up to the first
\* one the command rejects; the command is announced if none is rejected.
\* An unknown tool or a rejected attribute ends the load with false: no
\* later entry is processed.
C28_Commands ==
  \A s \in 2..it :
    CommandsAt(s) =>
      LET entries == Sections[s].value.entries
      IN  \A i \in 1..Len(entries) :
            IsCommand(entries[i]) =>
              LET e == entries[i]
                  name == e.key.value
              IN  IF i \notin Processed(entries)
                  THEN NoCommandFor(e) /\ loadResult = "false"
                  ELSE IF ~ValidFirst(e.value.entries)
                  THEN NoCommandFor(e) /\ ErrorCalls # {}
                  ELSE IF UnknownTool(e)
                  THEN NoCommandFor(e) /\ loadResult = "false"
                  ELSE /\ Cardinality(CallsFor("createCommand", name)) = 1
                       /\ Applied(name, 1) =
                            Applications(e.value.entries, 2, TRUE)
                       /\ CallsFor("loadedCommand", name) # {} <=> ~Fatal(e)
                       /\ Fatal(e) => loadResult = "false"

\* load() returned for a commands section whose first entry lacks the tool
\* and whose second entry was created, configured and announced.
C28_Witness ==
  /\ pc = "returned"
  /\ CommandsAt(2)
  /\ Len(Sections[2].value.entries) = 2
  /\ IsCommand(Sections[2].value.entries[1])
  /\ ~ValidFirst(Sections[2].value.entries[1].value.entries)
  /\ NoCommandFor(Sections[2].value.entries[1])
  /\ Len(Applied(Sections[2].value.entries[2].key.value, 1)) = 2
  /\ CallsFor("loadedCommand", Sections[2].value.entries[2].key.value) # {}

----------------------------------------------------------------------------
\* The test deepDependencyScanningStack: a linear chain of rules.

\* The engine with the chain registered, under a scheduling that lets
\* build() take its next step whenever it has one.
ChainInit == Init /\ graph = "chain"

ChainSpec == ChainInit /\ [][Next]_vars /\ WF_vars(Next)

\* What the finished builds of the chain did: each returned the value of
\* the leaf; one that found the leaf as the build before it left it ran no
\* task; the first one, and one after a change of the leaf, ran the task of
\* every rule of the chain once.
ChainBuilds ==
  \A i \in 1..Len(hist) :
    /\ hist[i].target = ChainNames[1]
    /\ hist[i].value = hist[i].ext["lastInputValue"]
    /\ IF i > 1 /\ hist[i].ext = hist[i - 1].ext
       THEN hist[i].built = <<>>
       ELSE /\ Len(hist[i].built) = Depth
            /\ Range(hist[i].built) = ChainKeys

----------------------------------------------------------------------------
\* The record written at completion and the decision of the scan.

\* The engine is about to process the completion at the head of the queue.
Completing == Phase = "finish"

\* The record stored for the key of the completion has the value, the
\* checked iteration and the dependencies of this run.
Recorded(c) ==
  /\ db'[c.key].exists
  /\ db'[c.key].value = c.value
  /\ db'[c.key].checked = iteration

Scanned(k, f) ==
  /\ Phase = "scan"
  /\ f = scanStack[TopFrame]
  /\ f.key = k
  /\ f.st # "NeedValidator"

\* The decision the scan of rule k takes in a step, with the stamp of the
\* rule's record that the built iteration of a dependency is compared to:
\* the rule is marked NeedsToRun exactly when the dependency at hand is
\* complete and newer, and it is marked IsComplete, unexecuted and checked
\* in this iteration, only when no stored dependency is newer.
ScanDecision(k, stamp) ==
  \A f \in {scanStack[i] : i \in 1..Len(scanStack)} :
    Scanned(k, f) =>
      /\ (f.st = "WaitingOnDep" /\ ruleState[FrameDep(f)] = "IsComplete") =>
           (ruleState'[k] = "NeedsToRun" <=> db[FrameDep(f)].built > stamp)
      /\ ruleState'[k] = "NeedsToRun" =>
           /\ f.st = "WaitingOnDep"
           /\ ruleState[FrameDep(f)] = "IsComplete"
           /\ db[FrameDep(f)].built > stamp
      /\ ruleState'[k] = "IsComplete" =>
           /\ \A i \in 1..Len(Dependencies(db[k])) :
                /\ ruleState[Dependencies(db[k])[i]] = "IsComplete"
                /\ db[Dependencies(db[k])[i]].built <= stamp
           /\ k \notin Executed
           /\ db'[k] = [db[k] EXCEPT !.checked = iteration]

Completions(c) ==
  Cardinality({i \in 1..Len(finishedTaskInfos) :
                 finishedTaskInfos[i].key = c})
    + (IF ruleState[c] = "IsComplete" THEN 1 ELSE 0)

\* inputsAvailable has been called on command c in this build.
InputsWereAvailable(c) ==
  \/ tasks[c].live /\ tasks[c].calls > 0
  \/ Completions(c) > 0

\* In this step a completion of command c with a value of one of the kinds
\* is reported.
Completes(c, kinds) ==
  /\ Len(finishedTaskInfos') = Len(finishedTaskInfos) + 1
  /\ finishedTaskInfos'[Len(finishedTaskInfos')].key = c
  /\ finishedTaskInfos'[Len(finishedTaskInfos')].value.kind \in kinds

\* The step is the call of inputsAvailable on command c by the engine
\* thread.
EngineCalls(c) ==
  /\ Phase = "ready"
  /\ Head(readyTaskInfos) = c
  /\ readyTaskInfos' = Tail(readyTaskInfos)

\* The step is the job of command c on a lane.
LaneRuns(c) ==
  \E l \in DOMAIN lanes :
    /\ lanes[l].state = "running"
    /\ lanes[l].cmd = c
    /\ lanes'[l].state # "running"

\* A completion with SkippedCommand is reported by the engine thread inside
\* inputsAvailable, a completion with FailedCommand or SuccessfulCommand by
\* the job on a lane.
CompletedWhere ==
  \A c \in CommandNames :
    /\ Completes(c, {"SkippedCommand"}) => EngineCalls(c)
    /\ Completes(c, {"FailedCommand", "SuccessfulCommand"}) => LaneRuns(c)
    /\ Completes(c, {"SkippedCommand", "FailedCommand", "SuccessfulCommand"})
         => Completions(c) = 0

\* The completions of command c agree with the path inputsAvailable took:
\* none before the call and while the job waits or runs, one with
\* SkippedCommand when no job was added, one with FailedCommand or
\* SuccessfulCommand when the job has run.
CompletedOnce(c) ==
  /\ Completions(c) <= 1
  /\ ~InputsWereAvailable(c) => Completions(c) = 0
  /\ InputsWereAvailable(c) /\ ran[c].submitted = 0
       => Completions(c) = 1 /\ Reported(c) = {"SkippedCommand"}
  /\ ran[c].submitted > 0 /\ ran[c].executed = 0 => Completions(c) = 0
  /\ ran[c].executed > 0
       => /\ Completions(c) = 1
          /\ Reported(c) \subseteq {"FailedCommand", "SuccessfulCommand"}
          /\ Reported(c) # {}

\* C33: exactly-once completion.  For every started ExternalCommand task
\* taskIsComplete is called exactly once on every path (cancelled, skipped,
\* failed, succeeded): by the engine thread inside inputsAvailable on the
\* cancelled and skipped paths, by the job on a lane otherwise, and under
\* fair scheduling every command whose inputs were available does complete.
C33_CompleteOnce ==
  /\ [](\A c \in CommandNames : CompletedOnce(c))
  /\ [][CompletedWhere]_vars
  /\ \A c \in CommandNames :
       InputsWereAvailable(c) ~> (ruleState[c] = "IsComplete")

\* A build in which one command failed on a lane, one succeeded on a lane,
\* and one was skipped by the engine thread without a job.
C33_Witness ==
  /\ pc = "done"
  /\ \E c \in CommandNames :
       ruleResult[c].kind = "FailedCommand" /\ ran[c].executed = 1
  /\ \E c \in CommandNames :
       ruleResult[c].kind = "SuccessfulCommand" /\ ran[c].executed = 1
  /\ \E c \in CommandNames :
       /\ ruleResult[c].kind = "SkippedCommand"
       /\ ran[c].submitted = 0
       /\ ~ran[c].readyCancelled
  /\ \E c \in CommandNames :
       /\ ruleResult[c].kind = "SkippedCommand"
       /\ ran[c].submitted = 0
       /\ ran[c].readyCancelled

\* Command c is called with its inputs available while the build is
\* cancelled: it completes with SkippedCommand, and no job is added, no
\* error reported and no command failure counted.
SkippedWhenCancelled(c) ==
  EngineCalls(c) /\ isCancelled
    => /\ Completes(c, {"SkippedCommand"})
       /\ jobs' = jobs
       /\ ran'[c].submitted = ran[c].submitted
       /\ numErrors' = numErrors
       /\ numFailedCommands' = numFailedCommands

\* C34: cancellation is stable.  The count of failed commands never
\* decreases, so once hadCommandFailure has been called isCancelled() stays
\* true for the rest of the build, and every ExternalCommand whose
\* inputsAvailable runs after that completes with SkippedCommand without a
\* job, an error or a call of hadCommandFailure.
C34_CancelStable ==
  [][/\ numFailedCommands' >= numFailedCommands
     /\ isCancelled => isCancelled'
     /\ \A c \in CommandNames : SkippedWhenCancelled(c)]_vars

\* A command with a missing input was called after another command had
\* failed: it was skipped, and the only failure counted is the other one.
C34_Witness ==
  \E c \in CommandNames :
    /\ ran[c].readyCancelled
    /\ tasks[c].hasMissingInput
    /\ ran[c].submitted = 0
    /\ Reported(c) = {"SkippedCommand"}
    /\ numFailedCommands = 1

\* An input of command c was delivered as missing in this build.
HasMissingInput(c) ==
  \E i \in 1..Len(ran[c].inputs) : ran[c].inputs[i] = "MissingInput"

\* The commands for which hadCommandFailure is due: the external command
\* failed, or inputsAvailable found a missing input while the build was not
\* cancelled.
FailedThemselves ==
  {c \in CommandNames :
     \/ "FailedCommand" \in Reported(c)
     \/ /\ InputsWereAvailable(c)
        /\ HasMissingInput(c)
        /\ ~ran[c].readyCancelled}

\* The lanes whose job has reported FailedCommand and has not yet called
\* hadCommandFailure.
FailurePending ==
  {l \in DOMAIN lanes : lanes[l].state = "failed"}

\* In this step hadCommandFailure is called for command c (at most once).
CountsFailure(c) ==
  \/ /\ EngineCalls(c)
     /\ ~isCancelled
     /\ tasks[c].hasMissingInput
     /\ numFailedCommands' = numFailedCommands + 1
  \/ \E l \in DOMAIN lanes :
       /\ lanes[l].state = "failed"
       /\ lanes[l].cmd = c
       /\ lanes'[l].state # "failed"
       /\ numFailedCommands' = numFailedCommands + 1

\* C35: failure counting.  hadCommandFailure is called exactly once for a
\* command whose external command fails or which has a missing input while
\* the build is not cancelled, and not for a command that succeeds, is
\* cancelled or is skipped for a failed input only; when the build ends the
\* count is the number of commands that failed themselves or had a missing
\* input, not the number of skipped dependants.
C35_FailureCount ==
  /\ [](numFailedCommands + Cardinality(FailurePending)
          = Cardinality(FailedThemselves))
  /\ [](pc = "done" => numFailedCommands = Cardinality(FailedThemselves))
  /\ [][numFailedCommands' # numFailedCommands
          => \E c \in CommandNames : CountsFailure(c)]_vars

\* A finished build in which a command failed on a lane and a dependant was
\* skipped for the failed input before the build was cancelled: one failure
\* is counted.
C35_Witness ==
  /\ pc = "done"
  /\ numFailedCommands = 1
  /\ \E c \in CommandNames : ruleResult[c].kind = "FailedCommand"
  /\ \E c \in CommandNames :
       /\ ruleResult[c].kind = "SkippedCommand"
       /\ ~ran[c].readyCancelled
       /\ ~HasMissingInput(c)
       /\ HasBadInput(c)

\* ---------------------------------------------------------------------
\* The skip flags of a command

\* Command c has been started in this build.
StartedInBuild(c) == tasks[c].live \/ ruleState[c] = "IsComplete"

\* The flags of command c are those of the inputs delivered to it in this
\* build.
FlagsOfThisExecution(c) ==
  /\ tasks[c].shouldSkip = HasBadInput(c)
  /\ tasks[c].hasMissingInput = HasMissingInput(c)

\* C40: the skip flags.  In every reachable state hasMissingInput implies
\* shouldSkip, so hasMissingInput is false whenever inputsAvailable reaches
\* the path that submits the job; and start resets both flags, so the flags
\* of a started command are those of the inputs of this execution, whatever
\* an earlier execution left.
C40_SkipFlags ==
  /\ \A c \in CommandNames : tasks[c].hasMissingInput => tasks[c].shouldSkip
  /\ AboutToAddJob => ~tasks[Head(readyTaskInfos)].hasMissingInput
  /\ \A c \in CommandNames : StartedInBuild(c) => FlagsOfThisExecution(c)

\* The earlier build left both flags set on c2 and on c3 (c2, not yet
\* started, still carries them): c3 has been started with both flags reset
\* and waits for its inputs.
C40_Witness ==
  /\ ~StartedInBuild("c2")
  /\ tasks["c2"].hasMissingInput
  /\ tasks["c3"].live
  /\ tasks["c3"].calls = 0
  /\ ~tasks["c3"].shouldSkip
  /\ ~tasks["c3"].hasMissingInput

----------------------------------------------------------------------------
\* The next build of a command whose definition may have been edited.

\* The largest number of nodes the inputs and outputs of a definition list.
MaxNodes == 3

\* The nodes the definitions list: files, all of which exist.
DefNodes == {"src", "src2", "a"}

NodeLists == UNION {[1..n -> DefNodes] : n \in 0..MaxNodes}

\* The inputs and outputs of a command as a build file can give them.
Definitions ==
  {d \in [inputs : NodeLists, outputs : NodeLists] :
     Len(d.inputs) + Len(d.outputs) <= MaxNodes}

\* The key of the command in the engine.
DefKey == "cmd"

\* The value the closure of inputsAvailable reports for a successful run of
\* definition d: the file information of every output and the signature.
SuccessOf(d, info) ==
  makeSuccessfulCommand([i \in 1..Len(d.outputs) |-> info[d.outputs[i]]],
                        SignatureOf(d.inputs, d.outputs))

\* The earlier build ran the command as it was defined then (command.was)
\* and stored that it failed, was skipped or succeeded; the build file now
\* defines it as command.now.  No file has changed since.
RebuildInit ==
  /\ graph = "buildfile"
  /\ ext = <<>>
  /\ db = <<>>
  /\ iteration = 1
  /\ pc = "idle"
  /\ target = ""
  /\ ruleState = [k \in {DefKey} |-> "Unknown"]
  /\ scanStack = <<>>
  /\ tasks = [k \in {DefKey} |-> IdleTask(NoFlags)]
  /\ inputRequests = <<>>
  /\ finishedInputRequests = <<>>
  /\ readyTaskInfos = <<>>
  /\ finishedTaskInfos = <<>>
  /\ requestedBy = <<>>
  /\ log = <<>>
  /\ hist = <<>>
  /\ registered = {DefKey}
  /\ lookups = <<>>
  /\ invocation = <<>>
  /\ jobs = <<>>
  /\ lanes = <<>>
  /\ ran = <<>>
  /\ ruleResult = <<>>
  /\ numErrors = 0
  /\ numFailedCommands = 0
  /\ buildResult = "none"
  /\ command \in [was : Definitions, now : Definitions]
  /\ fileInfo = [n \in NodeNames |->
                   IF n \in DefNodes THEN 1 ELSE MissingFileInfo]
  /\ prior \in {makeFailedCommand, makeSkippedCommand,
                SuccessOf(command.was, fileInfo)}
  /\ valid = "none"
  /\ NoParser
  /\ NoLoader

\* The loop of ExternalCommand::isResultValid over the outputs, from the
\* i-th on, reaches value.getNthOutputInfo(i) for an output the value holds
\* no record of.
RECURSIVE ReadsBeyond(_, _, _, _)
ReadsBeyond(outputs, value, info, i) ==
  IF i > Len(outputs) THEN FALSE
  ELSE IF isVirtual(outputs[i])
  THEN ReadsBeyond(outputs, value, info, i + 1)
  ELSE IF isMissing(info[outputs[i]]) THEN FALSE
  ELSE IF i > Len(value.outputInfos) THEN TRUE
  ELSE IF value.outputInfos[i] # info[outputs[i]] THEN FALSE
  ELSE ReadsBeyond(outputs, value, info, i + 1)

\* The stored value passes the tests of the kind and of the signature, and
\* the loop over the outputs of the present definition then reads a record
\* the value does not hold.
BeyondStored ==
  /\ prior.kind = "SuccessfulCommand"
  /\ prior.signature = SignatureOf(command.now.inputs, command.now.outputs)
  /\ ReadsBeyond(command.now.outputs, prior, fileInfo, 1)

\* The engine asks the command, as it is defined now, whether the stored
\* value is valid.  A read beyond the stored records is undefined: the
\* check aborts, or it compares with whatever is found there.
CheckDefinition ==
  /\ pc = "idle"
  /\ valid' \in IF BeyondStored THEN {"fault", "true", "false"}
                ELSE {IF isResultValidFor(command.now.inputs,
                                          command.now.outputs, prior,
                                          fileInfo)
                      THEN "true" ELSE "false"}
  /\ pc' = "checked"
  /\ UNCHANGED <<graph, ext, db, iteration, target, ruleState, scanStack,
                 tasks, inputRequests, finishedInputRequests, readyTaskInfos,
                 finishedTaskInfos, requestedBy, log, hist, registered,
                 lookups, invocation, fileInfo, jobs, lanes, ran, ruleResult,
                 numErrors, numFailedCommands, buildResult, command, prior,
                 parserVars, loaderVars>>

\* The scan of the engine decides: a rule whose stored value the validator
\* rejects is marked NeedsToRun and its task is created and started; with
\* a valid value and no newer dependency the rule is complete without
\* being executed.
RebuildScan ==
  /\ pc = "checked"
  /\ valid \in {"true", "false"}
  /\ IF valid = "false"
     THEN /\ ruleState' = [ruleState EXCEPT ![DefKey] = "NeedsToRun"]
          /\ tasks' = [tasks EXCEPT
                         ![DefKey].live = TRUE,
                         ![DefKey].waitCount = Len(command.now.inputs),
                         ![DefKey].declared = command.now.inputs]
     ELSE /\ ruleState' = [ruleState EXCEPT ![DefKey] = "IsComplete"]
          /\ UNCHANGED tasks
  /\ pc' = "done"
  /\ UNCHANGED <<graph, ext, db, iteration, target, scanStack,
                 inputRequests, finishedInputRequests, readyTaskInfos,
                 finishedTaskInfos, requestedBy, log, hist, registered,
                 lookups, invocation, fileInfo, jobs, lanes, ran, ruleResult,
                 numErrors, numFailedCommands, buildResult, command, prior,
                 valid, parserVars, loaderVars>>

RebuildNext == CheckDefinition \/ RebuildScan

RebuildSpec == RebuildInit /\ [][RebuildNext]_vars

\* C36: failures are never cached.  A stored FailedCommand or
\* SkippedCommand is never accepted by isResultValid, so the command is
\* marked NeedsToRun and its task is started again by the next build, also
\* when its definition and the files are as they were.
C36_FailuresNotCached ==
  prior.kind \in {"FailedCommand", "SkippedCommand"} =>
    /\ pc # "idle" => valid = "false"
    /\ pc = "done" =>
         /\ ruleState[DefKey] = "NeedsToRun"
         /\ tasks[DefKey].live

\* A command that failed is started again although its definition has not
\* changed.
C36_Witness ==
  /\ pc = "done"
  /\ prior = makeFailedCommand
  /\ command.was = command.now
  /\ command.now.outputs # <<>>
  /\ ruleState[DefKey] = "NeedsToRun"
  /\ tasks[DefKey].live
  /\ tasks[DefKey].waitCount = Len(command.now.inputs)

\* C37: the signature detects changes of the definition.  If the input
\* list or the output list of a command differs between the build that
\* stored a SuccessfulCommand and the current build, the current signature
\* differs from the stored one and isResultValid returns false.
C37_SignatureDetectsChange ==
  /\ pc # "idle"
  /\ prior.kind = "SuccessfulCommand"
  /\ command.was # command.now
  => /\ prior.signature #
          SignatureOf(command.now.inputs, command.now.outputs)
     /\ valid = "false"

\* A node was moved from the outputs to the inputs: the signature is the
\* one that was stored, the value of the earlier definition is found valid
\* and the command is not executed.
C37_Divergence ==
  /\ pc = "done"
  /\ prior.kind = "SuccessfulCommand"
  /\ command.was = [inputs |-> <<"src">>, outputs |-> <<"a", "src2">>]
  /\ command.now = [inputs |-> <<"src", "src2">>, outputs |-> <<"a">>]
  /\ ~BeyondStored
  /\ valid = "true"
  /\ ruleState[DefKey] = "IsComplete"
  /\ ~tasks[DefKey].live

\* C39: index safety.  isResultValid reads the stored record of the i-th
\* output only from a value that holds a record for it, because the value
\* has passed the test of the signature; and when the value is handed on,
\* every file output of the command has an index below the number of
\* stored records.
C39_IndexSafety ==
  /\ pc # "idle" => ~BeyondStored /\ valid # "fault"
  /\ pc = "done" /\ ruleState[DefKey] = "IsComplete" =>
       \A i \in 1..Len(command.now.outputs) :
         ~isVirtual(command.now.outputs[i]) => i <= Len(prior.outputInfos)

\* A node was moved from the inputs to the outputs: the signature is the
\* one that was stored, and the loop over the two outputs reads the second
\* of the records of a value that holds one.
C39_Divergence ==
  /\ pc = "checked"
  /\ command.was = [inputs |-> <<"src">>, outputs |-> <<"a">>]
  /\ command.now = [inputs |-> <<>>, outputs |-> <<"a", "src">>]
  /\ Len(prior.outputInfos) = 1
  /\ BeyondStored
  /\ valid = "fault"

----------------------------------------------------------------------------
\* The producer lists of the nodes.

ProducerSpec == ProducerInit /\ [][LoadNext]_vars

\* The command objects the loader owns: the entries of the command table.
\* (The command being configured is owned only inside
\* parseCommandsMapping.)
Owned == {commands[n] : n \in DOMAIN commands}

\* C38: the producer lists stay consistent.  Every command referenced from
\* the producer list of a node is a command the loader still owns, also
\* when two entries have the same name and when an entry is abandoned
\* because one of its attributes is rejected.
C38_ProducersOwned ==
  \A i \in 1..Len(producers) : producers[i].command \in Owned

\* Two entries named alike, both with outputs: load() has returned true,
\* the table holds the second command, and the producer list of the output
\* still holds the first, which was destroyed when the second took its
\* place.
C38_Divergence ==
  /\ pc = "returned"
  /\ loadResult = "true"
  /\ DOMAIN commands = {CommandNameAt[1]}
  /\ commands[CommandNameAt[1]] = 2
  /\ Len(producers) = 2
  /\ producers[1].command = 1
  /\ producers[2].command = 2
  /\ producers[1].node = producers[2].node

\* An entry whose attribute is rejected after its outputs were read: load()
\* has returned false, the command was destroyed with the entry, and the
\* producer list of the output still holds it.
C38_AbandonedDivergence ==
  /\ pc = "returned"
  /\ loadResult = "false"
  /\ commands = <<>>
  /\ Len(producers) = 1
  /\ producers[1].command = 1

====
